---- MODULE Spec2Model ----
EXTENDS Integers, Sequences, FiniteSets, TLC

(***************************************************************************)
(* PayFlow: the transaction engine (TransactionService + WorkerPool), the  *)
(* balance kernel (BalanceService over BalanceRepository) and the event    *)
(* store, as a state machine.                                              *)
(*                                                                         *)
(* The sources hold two families of BalanceService.  "rmw" is the one      *)
(* wired by the factory (balance_service.go:81-205): FindByUserID, then    *)
(* Update, then a best-effort event append.  "atomic" is the one built on  *)
(* BalanceRepository.AtomicUpdate (part_001:159-275).  The variable impl   *)
(* says which one the build links; it never changes.                       *)
(*                                                                         *)
(* Every process (a pool worker, or the caller of RollbackTransaction)     *)
(* runs its handler as a sequence of steps, one per access to the store.   *)
(***************************************************************************)

\* ---------------------------------------------------------------- bounds
NumUsers == 2
MaxTx == 2
MaxAmount == 1
MaxInitAmount == 1
NumWorkers == 2
QueueCap == 1
MaxFaults == 2
MaxAge == 2
NumSavers == 2
MaxVersion == 2
MaxLogLen == 4
MaxBalance == 3
MaxRetriesArg == 2
MaxRetryInterval == 2
MaxExecuteTimeout == 3
NumItems == 2
NumRetryWorkers == 2
RetryQueueCap == 1
NumCallers == 2
MaxProbes == 2
MaxClock == 5
MaxGeneration == 5
MaxRequestsPerGeneration == 7
Interval == 2
Timeout == 2

Users == 1..NumUsers
Amounts == 1..MaxAmount
Workers == 1..NumWorkers
Admin == NumWorkers + 1
Admins == (NumWorkers + 1)..(NumWorkers + NumCallers)
Procs == 1..(NumWorkers + NumCallers)
Savers == 1..NumSavers
Callers == 1..NumCallers
ItemIds == 1..NumItems
RetryWorkers == 1..NumRetryWorkers

VARIABLES
  impl,         \* "rmw" or "atomic": the BalanceService the build links
  hasRow,       \* balances table: user -> a row exists
  amount,       \* balances table: user -> amount (0 when there is no row)
  txs,          \* transactions table: id -> row (ids are 1..Len(txs))
  events,       \* event_store table: set of rows
  audit,        \* audit_logs table: set of rows
  initialized,  \* TransactionService.initialized
  started,      \* WorkerPool.started
  cancelled,    \* WorkerPool.ctx is done and jobQueue is closed
  queue,        \* WorkerPool.jobQueue: sequence of transaction ids
  stats,        \* StatsCollector counters
  proc,         \* process -> its frame (position and locals)
  faults,       \* storage faults injected so far
  accepted,     \* history: ids Submit returned true for
  rejected,     \* history: ids Submit returned false for
  applied,      \* history: <<id, phase>> for which a balance row was written
  outcome,      \* history: id -> what the processor returned for it
  opening,      \* history: the amounts of the initial state
  reply,        \* what the client or rollback call of the last step returned
  age,          \* transaction id -> time since created_at, in units of 24 h
  savers,       \* caller of EventStoreService.SaveEvent -> its frame
  cb,           \* CircuitBreaker: state, generation, counts, expiry, settings
  calls,        \* caller of CircuitBreaker.Execute -> its frame
  clock,        \* time.Now()
  inits,        \* callers of BalanceService.InitializeBalance
  subs,         \* callers of WorkerPool.Submit
  stopper,      \* position of the caller of WorkerPool.Stop
  fb,           \* a call of FallbackManager.Execute with the retry strategy
  rq,           \* RetryQueue: the channel and the items' attempts
  cache,        \* the current-balance cache keys
  cw            \* callers of the CachedBalanceService

vars == <<impl, hasRow, amount, txs, events, audit, initialized, started,
          cancelled, queue, stats, proc, faults, accepted, rejected, applied,
          outcome, opening, subs, stopper, fb, rq, cache, cw, reply, age, savers, cb, calls, clock, inits>>

\* ------------------------------------------------------------ event store

\* fmt.Sprintf("%d", id)
AggregateID(id) == ToString(id)

GetLastVersion(evs, atype, aid) ==
  LET vs == {e.version : e \in {x \in evs : x.atype = atype /\ x.aid = aid}}
  IN IF vs = {} THEN 0 ELSE CHOOSE v \in vs : \A w \in vs : w <= v

\* INSERT INTO event_store under UNIQUE(aggregate_id, version): TRUE when the
\* insert violates the constraint.
UniqueViolation(evs, e) ==
  \E x \in evs : x.aid = e.aid /\ x.version = e.version

\* EventStoreService.SaveEvent followed by EventStoreRepository.Save: the
\* resulting table (unchanged when the event is refused).
SaveEvent(evs, e) ==
  IF e.version # GetLastVersion(evs, e.atype, e.aid) + 1 THEN evs
  ELSE IF UniqueViolation(evs, e) THEN evs
  ELSE evs \cup {e}

\* BalanceService.saveEvent / TransactionService.saveEvent: the version is
\* last + 1, a failure is logged and dropped by every caller.
AppendEvent(evs, atype, id, etype, data) ==
  SaveEvent(evs, [atype |-> atype, aid |-> AggregateID(id), etype |-> etype,
                  version |-> GetLastVersion(evs, atype, AggregateID(id)) + 1,
                  data |-> data])

AuditRow(etype, eid, action, details) ==
  [etype |-> etype, eid |-> eid, action |-> action, details |-> details]

\* ------------------------------------------- concurrent SaveEvent callers

\* A caller that is not inside SaveEvent; ev, last and err are what its last
\* call was given, read and returned.
NoEvent == [atype |-> "none", aid |-> "none", etype |-> "none",
            version |-> 0, data |-> 0]

IdleSaver == [pc |-> "idle", ev |-> NoEvent, last |-> 0, err |-> "none"]

\* The events the callers submit: both aggregate types, the ids of the users,
\* versions 1..MaxVersion; the payload names the caller.
EventInputs(s) ==
  [atype : {"balance", "transaction"}, aid : {AggregateID(u) : u \in Users},
   etype : {"balance_updated"}, version : 1..MaxVersion, data : {s}]

\* repo.Save without the table's UNIQUE constraint
InsertUnchecked(evs, e) == evs \cup {e}

\* repo.Save: the INSERT, refused by UNIQUE(aggregate_id, version)
Insert(evs, e) == IF UniqueViolation(evs, e) THEN evs ELSE evs \cup {e}

\* A check that only refuses versions that are not ahead of last.
VersionAhead(v, last) == v > last

\* The version check of SaveEvent after it read last:
\* event.Version != lastVersion+1 is false.
VersionAccepted(v, last) == v = last + 1

\* EventStoreService.SaveEvent up to the version check: GetLastVersion, the
\* comparison, and the return of ErrConcurrentModification on a mismatch.
SaveCheck(s, e) ==
  LET last == GetLastVersion(events, e.atype, e.aid)
  IN /\ savers[s].pc = "idle"
     /\ savers' = [savers EXCEPT ![s] =
          IF ~VersionAccepted(e.version, last)
          THEN [pc |-> "idle", ev |-> e, last |-> last,
                err |-> "concurrent_modification"]
          ELSE [pc |-> "insert", ev |-> e, last |-> last, err |-> "none"]]
     /\ UNCHANGED <<impl, hasRow, amount, txs, events, audit, initialized,
                    started, cancelled, queue, stats, proc, faults, accepted,
                    rejected, applied, outcome, opening, subs, stopper, fb, rq, cache, cw, cb, calls, clock, inits, reply, age>>

\* EventStoreService.SaveEvent after the check: repo.Save, whose error (the
\* driver's unique_violation) is returned as it is.
SaveInsert(s) ==
  LET f == savers[s]
  IN /\ f.pc = "insert"
     /\ events' = Insert(events, f.ev)
     /\ savers' = [savers EXCEPT ![s] =
          [f EXCEPT !.pc = "idle",
                    !.err = IF UniqueViolation(events, f.ev)
                            THEN "unique_violation" ELSE "nil"]]
     /\ UNCHANGED <<impl, hasRow, amount, txs, audit, initialized, started,
                    cancelled, queue, stats, proc, faults, accepted, rejected,
                    applied, outcome, opening, subs, stopper, fb, rq, cache, cw, cb, calls, clock, inits, reply, age>>

\* ------------------------------------ writers: the services' saveEvent

\* TransactionService.saveEvent / BalanceService.saveEvent up to the call of
\* the event store: GetLastVersion, and the event built with version
\* last + 1. The payload names the writer.
SaveEventBuild(s, atype, u) ==
  LET last == GetLastVersion(events, atype, AggregateID(u))
  IN /\ savers[s].pc = "idle"
     /\ last < MaxVersion
     /\ savers' = [savers EXCEPT ![s] =
          [pc |-> "call", last |-> last, err |-> "none",
           ev |-> [atype |-> atype, aid |-> AggregateID(u),
                   etype |-> IF atype = "balance" THEN "balance_updated"
                             ELSE "transaction_created",
                   version |-> last + 1, data |-> s]]]
     /\ UNCHANGED <<impl, hasRow, amount, txs, events, audit, initialized,
                    started, cancelled, queue, stats, proc, faults, accepted,
                    rejected, applied, outcome, opening, subs, stopper, fb,
                    rq, cache, cw, cb, calls, clock, inits, reply, age>>

\* s.eventStore.SaveEvent(event) up to its version check; on a mismatch
\* saveEvent logs the error and returns it, there is no second attempt.
SaveEventCall(s) ==
  LET f == savers[s]
      last == GetLastVersion(events, f.ev.atype, f.ev.aid)
  IN /\ f.pc = "call"
     /\ savers' = [savers EXCEPT ![s] =
          IF ~VersionAccepted(f.ev.version, last)
          THEN [f EXCEPT !.pc = "idle", !.err = "concurrent_modification"]
          ELSE [f EXCEPT !.pc = "insert"]]
     /\ UNCHANGED <<impl, hasRow, amount, txs, events, audit, initialized,
                    started, cancelled, queue, stats, proc, faults, accepted,
                    rejected, applied, outcome, opening, subs, stopper, fb,
                    rq, cache, cw, cb, calls, clock, inits, reply, age>>


\* -------------------------------------------------------- circuit breaker

ZeroCounts ==
  [Requests |-> 0, TotalSuccesses |-> 0, TotalFailures |-> 0,
   ConsecutiveSuccesses |-> 0, ConsecutiveFailures |-> 0]

\* Counts.onRequest / onSuccess / onFailure
CountsOnRequest(c) == [c EXCEPT !.Requests = @ + 1]

CountsOnSuccess(c) ==
  [c EXCEPT !.TotalSuccesses = @ + 1, !.ConsecutiveSuccesses = @ + 1,
            !.ConsecutiveFailures = 0]

CountsOnFailure(c) ==
  [c EXCEPT !.TotalFailures = @ + 1, !.ConsecutiveFailures = @ + 1,
            !.ConsecutiveSuccesses = 0]

\* defaultReadyToTrip: counts.ConsecutiveFailures > 5
TripThreshold == 5

\* A trip rule that fires one failure early.
ReadyToTripEarly(c) == c.ConsecutiveFailures >= TripThreshold

ReadyToTrip(c) == c.ConsecutiveFailures > TripThreshold

\* time.Time: 0 is the zero value, the clock starts at 1.
IsZero(t) == t = 0

Before(t, now) == t < now

\* CircuitBreaker.toNewGeneration
ToNewGeneration(b, now) ==
  [b EXCEPT !.generation = @ + 1,
            !.counts = ZeroCounts,
            !.expiry = CASE b.state = "closed" -> now + Interval
                         [] b.state = "open" -> now + Timeout
                         [] OTHER -> 0]

\* CircuitBreaker.setState
SetState(b, state, now) ==
  IF b.state = state THEN b
  ELSE ToNewGeneration([b EXCEPT !.state = state], now)

\* CircuitBreaker.currentState: the breaker after the rollover or the move
\* to half_open that is due at now.
CurrentState(b, now) ==
  CASE b.state = "closed" ->
         IF ~IsZero(b.expiry) /\ Before(b.expiry, now)
         THEN ToNewGeneration(b, now) ELSE b
    [] b.state = "open" ->
         IF Before(b.expiry, now) THEN SetState(b, "half_open", now) ELSE b
    [] OTHER -> b

\* circuitbreaker.New at time now with Settings{MaxRequests: m} and every
\* other setting left to its default.
New(m, now) ==
  ToNewGeneration([state |-> "closed", generation |-> 0,
                   counts |-> ZeroCounts, expiry |-> 0, maxRequests |-> m],
                  now)

\* A beforeRequest that lets calls through an open breaker.
AdmissionIgnoringOpen(b) ==
  IF b.state = "half_open" /\ b.counts.Requests >= b.maxRequests
  THEN "too_many" ELSE "nil"

\* beforeRequest after currentState: the error it returns, "nil" when the
\* request is admitted.
Admission(b) ==
  IF b.state = "open" THEN "open"
  ELSE IF b.state = "half_open" /\ b.counts.Requests >= b.maxRequests
       THEN "too_many"
  ELSE "nil"

\* A half-open breaker that never closes.
ProbesNeverDone(c, max) == FALSE

\* onSuccess: cb.counts.ConsecutiveSuccesses >= cb.maxRequests
ProbesDone(c, max) == c.ConsecutiveSuccesses >= max

\* CircuitBreaker.onSuccess
OnSuccess(b, now) ==
  LET b1 == [b EXCEPT !.counts = CountsOnSuccess(@)]
  IN IF b.state = "half_open" /\ ProbesDone(b1.counts, b1.maxRequests)
     THEN SetState(b1, "closed", now) ELSE b1

\* CircuitBreaker.onFailure
OnFailure(b, now) ==
  LET b1 == [b EXCEPT !.counts = CountsOnFailure(@)]
  IN IF ReadyToTrip(b1.counts) THEN SetState(b1, "open", now) ELSE b1

\* An afterRequest that applies every completion.
StaleNever(before, generation) == FALSE

\* afterRequest: generation != before
Stale(before, generation) == generation # before

\* A caller outside Execute; err is what its last call returned, gen the
\* generation its last beforeRequest captured, dropped whether afterRequest
\* discarded its last completion.
IdleCall == [pc |-> "idle", gen |-> 0, err |-> "none", dropped |-> FALSE]

\* Execute up to the call of req: beforeRequest.
BeforeRequest(c) ==
  LET b == CurrentState(cb, clock)
      err == Admission(b)
  IN /\ calls[c].pc = "idle"
     /\ b.generation <= MaxGeneration
     /\ b.counts.Requests < MaxRequestsPerGeneration
     /\ cb' = IF err = "nil" THEN [b EXCEPT !.counts = CountsOnRequest(@)]
              ELSE b
     /\ calls' = [calls EXCEPT ![c] =
          IF err = "nil"
          THEN [pc |-> "running", gen |-> b.generation, err |-> "none",
                dropped |-> FALSE]
          ELSE [pc |-> "idle", gen |-> b.generation, err |-> err,
                dropped |-> FALSE]]
     /\ UNCHANGED <<impl, hasRow, amount, txs, events, audit, initialized,
                    started, cancelled, queue, stats, proc, faults, accepted,
                    rejected, applied, outcome, opening, subs, stopper, fb, rq, cache, cw, reply, age, savers, inits,
                    clock>>

\* Execute after req returned (success) or returned an error or panicked
\* (~success): afterRequest.
AfterRequest(c, success) ==
  LET b == CurrentState(cb, clock)
      stale == Stale(calls[c].gen, b.generation)
  IN /\ calls[c].pc = "running"
     /\ b.generation <= MaxGeneration
     /\ cb' = IF stale THEN b
              ELSE IF success THEN OnSuccess(b, clock)
              ELSE OnFailure(b, clock)
     /\ calls' = [calls EXCEPT ![c] =
          [pc |-> "idle", gen |-> calls[c].gen,
           err |-> IF success THEN "nil" ELSE "failed", dropped |-> stale]]
     /\ UNCHANGED <<impl, hasRow, amount, txs, events, audit, initialized,
                    started, cancelled, queue, stats, proc, faults, accepted,
                    rejected, applied, outcome, opening, subs, stopper, fb, rq, cache, cw, reply, age, savers, inits,
                    clock>>

\* CircuitBreaker.State
State ==
  /\ CurrentState(cb, clock).generation <= MaxGeneration
  /\ cb' = CurrentState(cb, clock)
  /\ UNCHANGED <<impl, hasRow, amount, txs, events, audit, initialized,
                 started, cancelled, queue, stats, proc, faults, accepted,
                 rejected, applied, outcome, opening, subs, stopper, fb, rq, cache, cw, reply, age, savers, inits,
                 calls, clock>>

\* Time passes.
ClockTick ==
  /\ clock < MaxClock
  /\ clock' = clock + 1
  /\ UNCHANGED <<impl, hasRow, amount, txs, events, audit, initialized,
                 started, cancelled, queue, stats, proc, faults, accepted,
                 rejected, applied, outcome, opening, subs, stopper, fb, rq, cache, cw, reply, age, savers, inits,
                 cb, calls>>

\* ---------------------------------------------------------------- replies

\* The value a call hands back to its caller: the operation, its arguments
\* and the error ("nil" for none).  A step that returns from no client or
\* rollback call leaves NoReply.
Reply(op, id, from, to, amt, err) ==
  [op |-> op, id |-> id, from |-> from, to |-> to, amt |-> amt, err |-> err]

NoReply == Reply("none", 0, 0, 0, 0, "none")

\* --------------------------------------------------------------- frames

IdleFrame ==
  [pc |-> "idle", tx |-> 0, phase |-> "none", op |-> "none", user |-> 0,
   amt |-> 0, cur |-> 0, err |-> "nil", comp |-> "none",
   snap |-> [u \in Users |-> 0], clean |-> TRUE]

\* First step of a kernel call: where DepositAtomically / WithdrawAtomically
\* first touches the store.
KernelEntry(i, op) ==
  IF i = "atomic" /\ op = "deposit" THEN "write" ELSE "read"

\* The frame of a process that calls op(user, amt) in the given phase.
Call(f, phase, op, user, amt) ==
  [f EXCEPT !.pc = KernelEntry(impl, op), !.phase = phase, !.op = op,
            !.user = user, !.amt = amt, !.cur = 0]


\* ------------------------------------------- frames of the later sections

IdleSubmit == [pc |-> "idle", tx |-> 0, ret |-> "none"]

\* FallbackManager.Execute before it is called: the configuration, the
\* context (deadline, 0 when there is none; done), the loop variables of
\* fallbackRetry, the number of re-invocations and what was returned.
IdleFallback ==
  [pc |-> "idle", maxRetries |-> 0, retryInterval |-> 0, timeout |-> 0,
   fallback |-> FALSE, parent |-> FALSE, deadline |-> 0, done |-> FALSE,
   attempt |-> 0, interval |-> 0, timer |-> 0, invoked |-> 0,
   busy |-> FALSE, ret |-> "none"]

\* A RetryItem the caller has not built yet: st is where the item is
\* ("none", "queued", "running", "sleeping", "done", "failed", "dropped"),
\* invoked counts the calls of its Function.
NoItem == [st |-> "none", maxRetries |-> 0, attempt |-> 0, invoked |-> 0]

\* NewRetryQueue: the empty channel, no items, the workers at their receive.
EmptyRetryQueue ==
  [items |-> <<>>, item |-> [i \in ItemIds |-> NoItem],
   worker |-> [w \in RetryWorkers |-> 0]]

NoEntry == [present |-> FALSE, value |-> 0]

IdleCached == [pc |-> "idle", user |-> 0, balance |-> 0, err |-> "none"]

\* ------------------------------------------------------ balance kernel

\* The arithmetic of a deposit (the closure handed to AtomicUpdate, or
\* balance.Amount += amount) and the closure of the atomic withdrawal.
DepositFn(cur, amt) == cur + amt

WithdrawFn(cur, amt) == IF cur < amt THEN -1 ELSE cur - amt

\* processTransfer after a failed credit: the deposit that gives the debited
\* amount back.
CompensateReceiver(f) ==
  Call(f, "comp", "deposit", txs[f.tx].to, txs[f.tx].amount)

Compensate(f) ==
  Call(f, "comp", "deposit", txs[f.tx].from, txs[f.tx].amount)

\* Where a process goes when its kernel call returns res ("ok" or an error
\* kind): the code between two kernel calls touches no table, so the return
\* and the next call are one step.
\*   worker, processDeposit / processWithdraw: "single"
\*   worker, processTransfer: "debit", "credit", "comp"
\*   RollbackTransaction: "rb" (deposit, withdraw), "rbt1", "rbt2" (transfer)
AfterKernel(f, res) ==
  CASE f.phase = "single" ->
         [f EXCEPT !.pc = "finish", !.err = IF res = "ok" THEN "nil" ELSE res]
    [] f.phase = "debit" ->
         IF res = "ok"
         THEN Call(f, "credit", "deposit", txs[f.tx].to, txs[f.tx].amount)
         ELSE [f EXCEPT !.pc = "finish", !.err = res]
    [] f.phase = "credit" ->
         IF res = "ok"
         THEN [f EXCEPT !.pc = "finish", !.err = "nil"]
         ELSE [Compensate(f) EXCEPT !.err = res]
    [] f.phase = "comp" ->
         [f EXCEPT !.pc = "finish",
                   !.comp = IF res = "ok" THEN "ok" ELSE "failed"]
    [] f.phase = "rb" ->
         IF res = "ok" THEN [f EXCEPT !.pc = "finish"] ELSE IdleFrame
    [] f.phase = "rbt1" ->
         IF res = "ok"
         THEN Call(f, "rbt2", "deposit", txs[f.tx].from, txs[f.tx].amount)
         ELSE IdleFrame
    [] f.phase = "rbt2" ->
         IF res = "ok" THEN [f EXCEPT !.pc = "finish"] ELSE IdleFrame

\* What RollbackTransaction returns when the kernel call of frame f ends
\* with res: an error ends the rollback at once, a success returns nothing
\* yet (the status update is still to come).
KernelReply(f, res) ==
  IF f.phase \in {"rb", "rbt1", "rbt2"} /\ res # "ok"
  THEN Reply("rollback", f.tx, txs[f.tx].from, txs[f.tx].to,
             txs[f.tx].amount, res)
  ELSE NoReply

\* History only: another process wrote the row of user u while f is inside
\* processTransfer on that account.
Dirty(f, u) ==
  IF f.phase \in {"debit", "credit", "comp"}
     /\ u \in {txs[f.tx].from, txs[f.tx].to}
  THEN [f EXCEPT !.clean = FALSE]
  ELSE f

\* A storage fault: the store call of this step returns an error and writes
\* nothing.  Faults are injected into the credit of a transfer and into its
\* compensating deposit.
KFault(p) ==
  /\ proc[p].pc \in {"read", "write"}
  /\ proc[p].phase \in {"credit", "comp"}
  /\ faults < MaxFaults
  /\ faults' = faults + 1
  /\ proc' = [proc EXCEPT ![p] = AfterKernel(proc[p], "storage")]
  /\ reply' = KernelReply(proc[p], "storage")
  /\ UNCHANGED <<age, savers, opening, subs, stopper, fb, rq, cache, cw, cb, calls, clock, inits, impl, hasRow, amount, txs, events, audit, initialized,
                 started, cancelled, queue, stats, accepted, rejected,
                 applied, outcome>>

\* The read that opens a kernel call: repo.FindByUserID (rmw) or
\* GetUserBalance (atomic WithdrawAtomically).
KRead(p) ==
  LET f == proc[p]
      u == f.user
      res ==
        IF impl = "rmw" /\ f.op = "deposit" THEN "ok"
        ELSE IF ~hasRow[u] THEN "notfound"
        ELSE IF impl = "rmw" /\ amount[u] < f.amt THEN "insufficient"
        ELSE "ok"
  IN /\ f.pc = "read"
     /\ proc' = [proc EXCEPT ![p] =
          IF res = "ok"
          THEN [f EXCEPT !.pc = "write",
                         !.cur = IF hasRow[u] THEN amount[u] ELSE 0]
          ELSE AfterKernel(f, res)]
     /\ reply' = KernelReply(f, res)
     /\ UNCHANGED <<age, savers, opening, subs, stopper, fb, rq, cache, cw, cb, calls, clock, inits, impl, hasRow, amount, txs, events, audit, initialized,
                    started, cancelled, queue, stats, faults, accepted,
                    rejected, applied, outcome>>

\* The value the write step stores.
NewAmount(i, op, cur, stored, amt) ==
  IF i = "rmw"
  THEN (IF op = "deposit" THEN DepositFn(cur, amt) ELSE cur - amt)
  ELSE (IF op = "deposit" THEN DepositFn(stored, amt)
                          ELSE WithdrawFn(stored, amt))

\* The write: repo.Update of the value computed from the earlier read (rmw),
\* or repo.AtomicUpdate, which reads the row, applies the closure and stores
\* its result under the repository mutex (atomic).
KWrite(p) ==
  LET f == proc[p]
      u == f.user
      new == NewAmount(impl, f.op, f.cur, amount[u], f.amt)
  IN /\ f.pc = "write"
     /\ IF ~hasRow[u]
        THEN /\ proc' = [proc EXCEPT ![p] = AfterKernel(f, "storage")]
             /\ reply' = KernelReply(f, "storage")
             /\ UNCHANGED <<amount, applied>>
        ELSE /\ amount' = [amount EXCEPT ![u] = new]
             /\ reply' = KernelReply(f, IF impl = "atomic" /\ new < 0
                                        THEN "insufficient" ELSE "ok")
             /\ applied' = applied \cup {<<f.tx, f.phase>>}
             /\ proc' = [q \in Procs |->
                  IF q = p
                  THEN (IF impl = "atomic" /\ new < 0
                        THEN AfterKernel(f, "insufficient")
                        ELSE [f EXCEPT !.pc = "event", !.cur = new])
                  ELSE Dirty(proc[q], u)]
     /\ UNCHANGED <<age, savers, opening, subs, stopper, fb, rq, cache, cw, cb, calls, clock, inits, impl, hasRow, txs, events, audit, initialized, started,
                    cancelled, queue, stats, faults, accepted, rejected,
                    outcome>>

\* After the write: the best-effort balance_updated event (rmw only) and the
\* audit row; then the call returns.
KEvent(p) ==
  LET f == proc[p]
  IN /\ f.pc = "event"
     /\ events' = IF impl = "rmw"
                  THEN AppendEvent(events, "balance", f.user,
                                   "balance_updated", f.cur)
                  ELSE events
     /\ audit' = audit \cup {AuditRow("balance", f.user, "update", f.op)}
     /\ proc' = [proc EXCEPT ![p] = AfterKernel(f, "ok")]
     /\ reply' = NoReply
     /\ UNCHANGED <<age, savers, opening, subs, stopper, fb, rq, cache, cw, cb, calls, clock, inits, impl, hasRow, amount, txs, initialized, started,
                    cancelled, queue, stats, faults, accepted, rejected,
                    applied, outcome>>


\* ------------------------------------------------------------ worker pool

\* History of a transaction the processor has not returned for.
NoOutcome == [err |-> "none", comp |-> "none", clean |-> TRUE,
              restored |-> TRUE]

\* A Submit whose send succeeds on a full channel.
SubmitAcceptsFull(st, q) == st /\ Len(q) <= QueueCap

\* WorkerPool.Submit with wp.started = st: TRUE when the transaction goes
\* into jobQueue.
SubmitAccepts(st, q) == st /\ Len(q) < QueueCap

\* ensureWorkerPoolInitialized / initWorkerPool: NewWorkerPool and Start on
\* the first call, nothing afterwards.
StartedAfterEnsure == IF initialized THEN started ELSE TRUE

\* The common tail of DepositFunds / WithdrawFunds / TransferFunds with a
\* constructed pool: repo.Create, (created event), Submit, and on rejection
\* UpdateStatus(failed).  st is wp.started when Submit runs.
\* The status of the new row once Submit has answered.
StatusAfterSubmitKeep(ok) == "pending"

StatusAfterSubmit(ok) == IF ok THEN "pending" ELSE "failed"

CreateAndSubmit(row, evs, st) ==
  LET id == Len(txs) + 1
      ok == SubmitAccepts(st, queue)
  IN /\ txs' = Append(txs, [row EXCEPT !.status = StatusAfterSubmit(ok)])
     /\ outcome' = Append(outcome, NoOutcome)
     /\ events' = evs
     /\ queue' = IF ok THEN Append(queue, id) ELSE queue
     /\ stats' = IF ok THEN [stats EXCEPT !.submitted = @ + 1]
                 ELSE IF st THEN [stats EXCEPT !.rejected = @ + 1]
                 ELSE stats
     /\ accepted' = IF ok THEN accepted \cup {id} ELSE accepted
     /\ rejected' = IF ok THEN rejected ELSE rejected \cup {id}
     /\ reply' = Reply(row.type, id, row.from, row.to, row.amount,
                       IF ok THEN "nil" ELSE "overloaded")

TxRow(type, from, to, amt) ==
  [type |-> type, from |-> from, to |-> to, amount |-> amt,
   status |-> "pending"]

\* TransactionService.DepositFunds.  It does not call
\* ensureWorkerPoolInitialized: before the pool exists s.workerPool is nil and
\* Submit panics after the row and the event were written.
DepositFunds(u, a) ==
  LET id == Len(txs) + 1
      evs == AppendEvent(events, "transaction", id, "transaction_created", id)
  IN /\ Len(txs) < MaxTx
     /\ IF initialized
        THEN CreateAndSubmit(TxRow("deposit", 0, u, a), evs, started)
        ELSE /\ txs' = Append(txs, TxRow("deposit", 0, u, a))
             /\ outcome' = Append(outcome, NoOutcome)
             /\ events' = evs
             /\ reply' = Reply("deposit", id, 0, u, a, "panic")
             /\ UNCHANGED <<queue, stats, accepted, rejected>>
     /\ UNCHANGED <<age, savers, opening, subs, stopper, fb, rq, cache, cw, cb, calls, clock, inits, impl, hasRow, amount, audit, initialized, started,
                    cancelled, proc, faults, applied>>

\* The checks WithdrawFunds and TransferFunds make on the sender before they
\* create anything: the error they return, "nil" when they pass.
WithdrawCheckNoBalance(u, a) ==
  IF a <= 0 THEN "invalid_amount"
  ELSE IF ~hasRow[u] THEN "notfound"
  ELSE "nil"

WithdrawCheck(u, a) ==
  IF a <= 0 THEN "invalid_amount"
  ELSE IF ~hasRow[u] THEN "notfound"
  ELSE IF amount[u] < a THEN "insufficient"
  ELSE "nil"

TransferCheck(from, to, a) ==
  IF a <= 0 THEN "invalid_amount"
  ELSE IF from = to THEN "same_user"
  ELSE WithdrawCheck(from, a)

\* TransactionService.WithdrawFunds
WithdrawFunds(u, a) ==
  /\ Len(txs) < MaxTx
  /\ initialized' = TRUE
  /\ started' = StartedAfterEnsure
  /\ IF WithdrawCheck(u, a) = "nil"
     THEN CreateAndSubmit(TxRow("withdraw", u, 0, a), events,
                          StartedAfterEnsure)
     ELSE /\ reply' = Reply("withdraw", 0, u, 0, a, WithdrawCheck(u, a))
          /\ UNCHANGED <<txs, outcome, events, queue, stats, accepted,
                         rejected>>
  /\ UNCHANGED <<age, savers, opening, subs, stopper, fb, rq, cache, cw, cb, calls, clock, inits, impl, hasRow, amount, audit, cancelled, proc, faults,
                 applied>>

\* BalanceService.InitializeBalance as TransferFunds calls it (the receiver
\* has no row): the row with amount 0, the audit row and, in the rmw variant,
\* a balance_updated event.
InitializedEvents(evs, u) ==
  IF impl = "rmw" THEN AppendEvent(evs, "balance", u, "balance_updated", 0)
  ELSE evs

\* TransactionService.TransferFunds
TransferFunds(from, to, a) ==
  /\ Len(txs) < MaxTx
  /\ initialized' = TRUE
  /\ started' = StartedAfterEnsure
  /\ IF TransferCheck(from, to, a) = "nil"
     THEN /\ hasRow' = [hasRow EXCEPT ![to] = TRUE]
          /\ audit' = IF hasRow[to] THEN audit
                      ELSE audit \cup {AuditRow("balance", to, "create", "init")}
          /\ CreateAndSubmit(TxRow("transfer", from, to, a),
                             IF hasRow[to] THEN events
                             ELSE InitializedEvents(events, to),
                             StartedAfterEnsure)
     ELSE /\ reply' = Reply("transfer", 0, from, to, a,
                            TransferCheck(from, to, a))
          /\ UNCHANGED <<hasRow, audit, txs, outcome, events, queue, stats,
                         accepted, rejected>>
  /\ UNCHANGED <<age, savers, opening, subs, stopper, fb, rq, cache, cw, cb, calls, clock, inits, impl, amount, cancelled, proc, faults, applied>>

\* TransactionService.GetWorkerPoolStats (the 30 s ticker of main): its only
\* effect on the state is ensureWorkerPoolInitialized.
GetWorkerPoolStats ==
  /\ ~initialized
  /\ initialized' = TRUE
  /\ started' = TRUE
  /\ reply' = NoReply
  /\ UNCHANGED <<age, savers, opening, subs, stopper, fb, rq, cache, cw, cb, calls, clock, inits, impl, hasRow, amount, txs, events, audit, cancelled, queue,
                 stats, proc, faults, accepted, rejected, applied, outcome>>

\* TransactionService.Shutdown -> WorkerPool.Stop: started = false, cancel(),
\* close(jobQueue).
Shutdown ==
  /\ initialized
  /\ started
  /\ started' = FALSE
  /\ cancelled' = TRUE
  /\ reply' = NoReply
  /\ UNCHANGED <<age, savers, opening, subs, stopper, fb, rq, cache, cw, cb, calls, clock, inits, impl, hasRow, amount, txs, events, audit, initialized, queue,
                 stats, proc, faults, accepted, rejected, applied, outcome>>

\* A receive that leaves the transaction in the channel.
ReceivedKeeps(q) == q

\* case transaction, ok := <-wp.jobQueue: the channel after the receive.
Received(q) == Tail(q)

\* WorkerPool.worker, the receive case of the select, followed by the
\* processor up to its first kernel call.
Dequeue(w) ==
  LET t == Head(queue)
      row == txs[t]
      f == [IdleFrame EXCEPT !.tx = t]
  IN /\ proc[w].pc = "idle"
     /\ queue # <<>>
     /\ queue' = Received(queue)
     /\ proc' = [proc EXCEPT ![w] =
          CASE row.type = "deposit" ->
                 Call(f, "single", "deposit", row.to, row.amount)
            [] row.type = "withdraw" ->
                 Call(f, "single", "withdraw", row.from, row.amount)
            [] row.type = "transfer" ->
                 [Call(f, "debit", "withdraw", row.from, row.amount)
                    EXCEPT !.snap = amount]]
     /\ reply' = NoReply
     /\ UNCHANGED <<age, savers, opening, subs, stopper, fb, rq, cache, cw, cb, calls, clock, inits, impl, hasRow, amount, txs, events, audit, initialized,
                    started, cancelled, stats, faults, accepted, rejected,
                    applied, outcome>>

\* WorkerPool.worker, the ctx.Done case of the select (Go picks any ready
\* case, so a cancelled worker may leave with transactions still queued).
WorkerExit(w) ==
  /\ proc[w].pc = "idle"
  /\ cancelled
  /\ proc' = [proc EXCEPT ![w] = [IdleFrame EXCEPT !.pc = "exited"]]
  /\ reply' = NoReply
  /\ UNCHANGED <<age, savers, opening, subs, stopper, fb, rq, cache, cw, cb, calls, clock, inits, impl, hasRow, amount, txs, events, audit, initialized,
                 started, cancelled, queue, stats, faults, accepted, rejected,
                 applied, outcome>>

\* The end of processDeposit / processWithdraw / processTransfer and of the
\* worker's loop body: UpdateStatus, for deposits the completed / failed
\* event, the audit row on success, then the pool's counter.
WorkerFinish(w) ==
  LET f == proc[w]
      t == f.tx
      ok == f.err = "nil"
      etype == IF ok THEN "transaction_completed" ELSE "transaction_failed"
  IN /\ w \in Workers
     /\ f.pc = "finish"
     /\ txs' = [txs EXCEPT ![t].status = IF ok THEN "completed" ELSE "failed"]
     /\ events' = IF txs[t].type = "deposit"
                  THEN AppendEvent(events, "transaction", t, etype, t)
                  ELSE events
     /\ audit' = IF ok
                 THEN audit \cup {AuditRow("transaction", t, "create",
                                           txs[t].type)}
                 ELSE audit
     /\ stats' = IF ok THEN [stats EXCEPT !.completed = @ + 1]
                 ELSE [stats EXCEPT !.failed = @ + 1]
     /\ outcome' = [outcome EXCEPT ![t] =
          [err |-> f.err, comp |-> f.comp, clean |-> f.clean,
           restored |-> /\ txs[t].type = "transfer"
                        /\ amount[txs[t].from] = f.snap[txs[t].from]
                        /\ amount[txs[t].to] = f.snap[txs[t].to]]]
     /\ proc' = [proc EXCEPT ![w] = IdleFrame]
     /\ reply' = NoReply
     /\ UNCHANGED <<age, savers, opening, subs, stopper, fb, rq, cache, cw, cb, calls, clock, inits, impl, hasRow, amount, initialized, started, cancelled,
                    queue, faults, accepted, rejected, applied>>


\* ------------------------------------------- Submit and Stop, step by step

\* close(wp.jobQueue) has run.
Closed == stopper \in {"wait", "done"}

\* A send that waits for nothing and never fails: the queue as the send
\* leaves it when the channel is open and has room.
Sent(q, t) == Append(q, t)

\* DepositFunds with a constructed pool up to the end of Submit's critical
\* section: repo.Create, the created event, and Submit's
\* Lock / if !wp.started / Unlock. When the pool is stopped Submit returns
\* false and DepositFunds marks the row failed.
SubmitCheck(c, u, a) ==
  LET id == Len(txs) + 1
      row == TxRow("deposit", 0, u, a)
  IN /\ subs[c].pc = "idle"
     /\ initialized
     /\ Len(txs) < MaxTx
     /\ txs' = Append(txs, [row EXCEPT !.status =
                              IF started THEN "pending" ELSE "failed"])
     /\ outcome' = Append(outcome, NoOutcome)
     /\ events' = AppendEvent(events, "transaction", id,
                              "transaction_created", id)
     /\ subs' = [subs EXCEPT ![c] =
          IF started THEN [pc |-> "send", tx |-> id, ret |-> "none"]
          ELSE [pc |-> "idle", tx |-> id, ret |-> "false"]]
     /\ rejected' = IF started THEN rejected ELSE rejected \cup {id}
     /\ reply' = NoReply
     /\ UNCHANGED <<impl, hasRow, amount, audit, initialized, started, cancelled,
                 queue, stats, proc, faults, accepted, applied, opening, age,
                 savers, cb, calls, clock, inits, stopper, fb, rq, cache, cw>>

\* Submit after it released the mutex: the select with the send and the
\* default case. A send on a closed channel panics, also inside a select.
SubmitSend(c) ==
  LET t == subs[c].tx
      ret == IF Closed THEN "panic"
             ELSE IF Len(queue) < QueueCap THEN "true" ELSE "false"
  IN /\ subs[c].pc = "send"
     /\ subs' = [subs EXCEPT ![c] = [pc |-> "idle", tx |-> t, ret |-> ret]]
     /\ queue' = IF ret = "true" THEN Sent(queue, t) ELSE queue
     /\ stats' = CASE ret = "true" -> [stats EXCEPT !.submitted = @ + 1]
                   [] ret = "false" -> [stats EXCEPT !.rejected = @ + 1]
                   [] OTHER -> stats
     /\ accepted' = IF ret = "true" THEN accepted \cup {t} ELSE accepted
     /\ rejected' = IF ret = "false" THEN rejected \cup {t} ELSE rejected
     /\ txs' = IF ret = "false" THEN [txs EXCEPT ![t].status = "failed"]
               ELSE txs
     /\ reply' = NoReply
     /\ UNCHANGED <<impl, hasRow, amount, events, audit, initialized, started,
                 cancelled, proc, faults, applied, outcome, opening, age,
                 savers, cb, calls, clock, inits, stopper, fb, rq, cache, cw>>

\* TransactionService.Shutdown -> WorkerPool.Stop, its critical section:
\* Lock, if !wp.started return, wp.started = false, Unlock.
StopFlag ==
  /\ stopper = "idle"
  /\ initialized
  /\ started' = FALSE
  /\ stopper' = IF started THEN "cancel" ELSE "idle"
  /\ reply' = NoReply
  /\ UNCHANGED <<impl, hasRow, amount, txs, events, audit, initialized,
              cancelled, queue, stats, proc, faults, accepted, rejected,
              applied, outcome, opening, age, savers, cb, calls, clock, inits,
              subs, fb, rq, cache, cw>>

\* wp.cancel()
StopCancel ==
  /\ stopper = "cancel"
  /\ cancelled' = TRUE
  /\ stopper' = "close"
  /\ reply' = NoReply
  /\ UNCHANGED <<impl, hasRow, amount, txs, events, audit, initialized, started,
              queue, stats, proc, faults, accepted, rejected, applied,
              outcome, opening, age, savers, cb, calls, clock, inits, subs,
              fb, rq, cache, cw>>

\* close(wp.jobQueue)
StopClose ==
  /\ stopper = "close"
  /\ stopper' = "wait"
  /\ reply' = NoReply
  /\ UNCHANGED <<impl, hasRow, amount, txs, events, audit, initialized, started,
              cancelled, queue, stats, proc, faults, accepted, rejected,
              applied, outcome, opening, age, savers, cb, calls, clock, inits,
              subs, fb, rq, cache, cw>>

\* wp.wg.Wait() returns once every worker has left its loop.
StopWait ==
  /\ stopper = "wait"
  /\ \A w \in Workers : proc[w].pc = "exited"
  /\ stopper' = "done"
  /\ reply' = NoReply
  /\ UNCHANGED <<impl, hasRow, amount, txs, events, audit, initialized, started,
              cancelled, queue, stats, proc, faults, accepted, rejected,
              applied, outcome, opening, age, savers, cb, calls, clock, inits,
              subs, fb, rq, cache, cw>>


\* ------------------------------------------------- cached balance service

\* cache.Set(key, balance): the cache with the key holding the balance
CacheSetKey(ch, u, balance) ==
  [ch EXCEPT ![u] = [present |-> TRUE, value |-> balance]]

\* cache.DeleteMultiple for the keys of user u
CacheDelete(ch, u) == [ch EXCEPT ![u] = NoEntry]

\* CachedBalanceService.DepositAtomically / WithdrawAtomically up to the
\* return of the wrapped service, whose call is taken as one step; an error
\* is returned at once and the cache is left alone.
CachedCall(c, op, u, a) ==
  LET new == IF op = "deposit" THEN DepositFn(amount[u], a)
             ELSE WithdrawFn(amount[u], a)
      err == IF ~hasRow[u] THEN "notfound"
             ELSE IF new < 0 THEN "insufficient" ELSE "nil"
  IN /\ cw[c].pc = "idle"
     /\ new <= MaxBalance
     /\ amount' = IF err = "nil" THEN [amount EXCEPT ![u] = new] ELSE amount
     /\ cw' = [cw EXCEPT ![c] =
          IF err = "nil"
          THEN [pc |-> "invalidate", user |-> u, balance |-> new,
                err |-> "none"]
          ELSE [pc |-> "idle", user |-> u, balance |-> 0, err |-> err]]
     /\ UNCHANGED <<impl, hasRow, txs, events, audit, initialized, started,
                 cancelled, queue, stats, proc, faults, accepted, rejected,
                 applied, outcome, opening, reply, age, savers, cb, calls,
                 clock, inits, subs, stopper, fb, rq, cache>>

\* cache.InvalidateBalanceCache(ctx, s.cache, userID)
CachedInvalidate(c) ==
  /\ cw[c].pc = "invalidate"
  /\ cache' = CacheDelete(cache, cw[c].user)
  /\ cw' = [cw EXCEPT ![c].pc = "set"]
  /\ UNCHANGED <<impl, hasRow, amount, txs, events, audit, initialized, started,
              cancelled, queue, stats, proc, faults, accepted, rejected,
              applied, outcome, opening, reply, age, savers, cb, calls, clock,
              inits, subs, stopper, fb, rq>>

\* s.cache.Set(ctx, key, balance, MediumExpiration) and the return
CachedSet(c) ==
  /\ cw[c].pc = "set"
  /\ cache' = CacheSetKey(cache, cw[c].user, cw[c].balance)
  /\ cw' = [cw EXCEPT ![c].pc = "idle", ![c].err = "nil"]
  /\ UNCHANGED <<impl, hasRow, amount, txs, events, audit, initialized, started,
              cancelled, queue, stats, proc, faults, accepted, rejected,
              applied, outcome, opening, reply, age, savers, cb, calls, clock,
              inits, subs, stopper, fb, rq>>


\* ------------------------------------- fallback manager, retry strategy

\* maxRetries <= 0 -> 3
DefaultMaxRetries == 3

\* interval <= 0 -> time.Second (the unit of the clock)
DefaultRetryInterval == 1

EffectiveMaxRetries(m) == IF m <= 0 THEN DefaultMaxRetries ELSE m

EffectiveInterval(i) == IF i <= 0 THEN DefaultRetryInterval ELSE i

\* A backoff that does not grow.
NextIntervalSame(i) == i

\* interval *= 2
NextInterval(i) == i * 2

\* The latest time a call can still be running: the first call, the waits
\* and the attempts, each call taking at most one unit.
RECURSIVE Pow2(_)
Pow2(n) == IF n <= 0 THEN 1 ELSE 2 * Pow2(n - 1)

Horizon ==
  LET n == EffectiveMaxRetries(MaxRetriesArg)
      m == IF n < DefaultMaxRetries THEN DefaultMaxRetries ELSE n
  IN 2 + m + (IF MaxRetryInterval < 1 THEN 1 ELSE MaxRetryInterval)
               * (Pow2(m) - 1)

\* The end of fallbackRetry after the loop: FallbackFunc if there is one,
\* else "all retry attempts failed".
Exhausted(f) ==
  [f EXCEPT !.pc = "returned",
            !.ret = IF f.fallback THEN "fallback" ELSE "all_failed"]

\* The head of the loop of fallbackRetry with the loop variables of f at
\* time now: the loop condition, then the select, which returns ctx.Err()
\* at once when ctx is done and otherwise waits on a fresh timer.
LoopHead(f, now) ==
  IF f.attempt > EffectiveMaxRetries(f.maxRetries) THEN Exhausted(f)
  ELSE IF f.done THEN [f EXCEPT !.pc = "returned", !.ret = "ctx"]
  ELSE [f EXCEPT !.pc = "select", !.timer = now + f.interval]

\* FallbackManager.Execute up to the first call of executePrimary.
FbExecute(m, i, t, hasFallback, parent) ==
  /\ fb.pc = "idle"
  /\ fb' = [fb EXCEPT !.pc = "primary", !.maxRetries = m,
                      !.retryInterval = i, !.timeout = t,
                      !.fallback = hasFallback, !.parent = parent,
                      !.deadline = IF t > 0 THEN clock + t ELSE 0]
  /\ UNCHANGED <<impl, hasRow, amount, txs, events, audit, initialized, started,
              cancelled, queue, stats, proc, faults, accepted, rejected,
              applied, outcome, opening, reply, age, savers, cb, calls, clock,
              inits, subs, stopper, rq, cache, cw>>

\* The first executePrimary returns: a result is returned as it is, an
\* error enters executeFallback -> fallbackRetry.
FbPrimaryReturn(ok) ==
  /\ fb.pc = "primary"
  /\ fb' = IF ok THEN [fb EXCEPT !.pc = "returned", !.ret = "primary"]
           ELSE LoopHead([fb EXCEPT !.attempt = 1, !.busy = FALSE,
                              !.interval = EffectiveInterval(fb.retryInterval)],
                         clock)
  /\ UNCHANGED <<impl, hasRow, amount, txs, events, audit, initialized, started,
              cancelled, queue, stats, proc, faults, accepted, rejected,
              applied, outcome, opening, reply, age, savers, cb, calls, clock,
              inits, subs, stopper, rq, cache, cw>>

\* case <-time.After(interval): the timer fires while the select waits, and
\* executePrimary is called again.
FbTimer ==
  /\ fb.pc = "select"
  /\ clock >= fb.timer
  /\ fb' = [fb EXCEPT !.pc = "attempt", !.invoked = @ + 1]
  /\ UNCHANGED <<impl, hasRow, amount, txs, events, audit, initialized, started,
              cancelled, queue, stats, proc, faults, accepted, rejected,
              applied, outcome, opening, reply, age, savers, cb, calls, clock,
              inits, subs, stopper, rq, cache, cw>>

\* The executePrimary of an attempt returns: a result ends the call, an
\* error doubles the interval and goes round the loop.
FbAttemptReturn(ok) ==
  /\ fb.pc = "attempt"
  /\ fb' = IF ok THEN [fb EXCEPT !.pc = "returned", !.ret = "retry"]
           ELSE LoopHead([fb EXCEPT !.attempt = @ + 1, !.busy = FALSE,
                              !.interval = NextInterval(@)], clock)
  /\ UNCHANGED <<impl, hasRow, amount, txs, events, audit, initialized, started,
              cancelled, queue, stats, proc, faults, accepted, rejected,
              applied, outcome, opening, reply, age, savers, cb, calls, clock,
              inits, subs, stopper, rq, cache, cw>>

\* ctx.Done() is closed: the deadline of WithTimeout has passed, or the
\* caller cancelled its context.  A select that is waiting takes the case
\* and fallbackRetry returns ctx.Err().
FbCtxDone ==
  /\ fb.pc \in {"primary", "select", "attempt"}
  /\ ~fb.done
  /\ fb.parent \/ (fb.deadline > 0 /\ clock >= fb.deadline)
  /\ fb' = IF fb.pc = "select"
           THEN [fb EXCEPT !.done = TRUE, !.pc = "returned", !.ret = "ctx"]
           ELSE [fb EXCEPT !.done = TRUE]
  /\ UNCHANGED <<impl, hasRow, amount, txs, events, audit, initialized, started,
              cancelled, queue, stats, proc, faults, accepted, rejected,
              applied, outcome, opening, reply, age, savers, cb, calls, clock,
              inits, subs, stopper, rq, cache, cw>>

\* Time passes during the call: while the select waits for its timer, and
\* at most one unit inside each call of the primary function.
FbTick ==
  /\ clock < Horizon
  /\ \/ fb.pc = "select" /\ clock < fb.timer /\ fb' = fb
     \/ fb.pc \in {"primary", "attempt"} /\ ~fb.busy
          /\ fb' = [fb EXCEPT !.busy = TRUE]
  /\ clock' = clock + 1
  /\ UNCHANGED <<impl, hasRow, amount, txs, events, audit, initialized, started,
              cancelled, queue, stats, proc, faults, accepted, rejected,
              applied, outcome, opening, reply, age, savers, cb, calls, inits,
              subs, stopper, rq, cache, cw>>


\* ------------------------------------------------------------ retry queue

\* A reschedule rule that allows one attempt more.
RescheduleAlso(attempt, max) == attempt <= max

\* if item.Attempt < item.MaxRetries
Reschedule(attempt, max) == attempt < max

\* RetryQueue.Add: the non-blocking send; a full channel drops the item.
RqAdded(q, i) ==
  IF Len(q.items) < RetryQueueCap
  THEN [q EXCEPT !.items = Append(@, i), !.item[i].st = "queued"]
  ELSE [q EXCEPT !.item[i].st = "dropped"]

\* A caller builds a RetryItem with MaxRetries m (Attempt 0) and adds it.
RqAdd(i, m) ==
  /\ rq.item[i].st = "none"
  /\ rq' = RqAdded([rq EXCEPT !.item[i].maxRetries = m], i)
  /\ UNCHANGED <<impl, hasRow, amount, txs, events, audit, initialized, started,
              cancelled, queue, stats, proc, faults, accepted, rejected,
              applied, outcome, opening, reply, age, savers, cb, calls, clock,
              inits, subs, stopper, fb, cache, cw>>

\* RetryQueue.worker receives an item; processRetryItem increments Attempt
\* and calls item.Function.
RqReceive(w) ==
  LET i == Head(rq.items)
  IN /\ rq.worker[w] = 0
     /\ rq.items # <<>>
     /\ rq' = [rq EXCEPT !.items = Tail(@), !.worker[w] = i,
                         !.item[i].st = "running",
                         !.item[i].attempt = @ + 1,
                         !.item[i].invoked = @ + 1]
     /\ UNCHANGED <<impl, hasRow, amount, txs, events, audit, initialized,
                 started, cancelled, queue, stats, proc, faults, accepted,
                 rejected, applied, outcome, opening, reply, age, savers, cb,
                 calls, clock, inits, subs, stopper, fb, cache, cw>>

\* item.Function returns: on success the item is finished; on an error it
\* is handed to a goroutine that sleeps and adds it again, or given up.
RqFunctionReturn(w, ok) ==
  LET i == rq.worker[w]
      it == rq.item[i]
  IN /\ i # 0
     /\ rq' = [rq EXCEPT !.worker[w] = 0,
                         !.item[i].st =
                            IF ok THEN "done"
                            ELSE IF Reschedule(it.attempt, it.maxRetries)
                                 THEN "sleeping" ELSE "failed"]
     /\ UNCHANGED <<impl, hasRow, amount, txs, events, audit, initialized,
                 started, cancelled, queue, stats, proc, faults, accepted,
                 rejected, applied, outcome, opening, reply, age, savers, cb,
                 calls, clock, inits, subs, stopper, fb, cache, cw>>

\* time.Sleep(item.Interval) is over: rq.Add(item)
RqWake(i) ==
  /\ rq.item[i].st = "sleeping"
  /\ rq' = RqAdded(rq, i)
  /\ UNCHANGED <<impl, hasRow, amount, txs, events, audit, initialized, started,
              cancelled, queue, stats, proc, faults, accepted, rejected,
              applied, outcome, opening, reply, age, savers, cb, calls, clock,
              inits, subs, stopper, fb, cache, cw>>


\* ---------------------------------------------------------------- rollback

\* The rollback window: 24 h, in the unit of age.
RollbackWindow == 1

\* An eligibility check without the deadline.
WithinAnyAge(a) == TRUE

\* The deadline check passes: tx.CreatedAt.Before(time.Now().Add(-24 h)) is
\* false, that is, the transaction is at most 24 h old.
WithinWindow(a) == a <= RollbackWindow

\* IsTransactionEligibleForRollback, for a transaction that exists
IsTransactionEligibleForRollback(id) ==
  /\ txs[id].status = "completed"
  /\ txs[id].status # "rolled_back"
  /\ WithinWindow(age[id])

\* The checks of RollbackTransaction before its first kernel call: the lookup,
\* the eligibility and, for a deposit or a transfer, the receiver's balance
\* (FindByUserID returns nil for a missing row and the next line dereferences
\* it).  The error returned, "nil" when they pass.
RollbackCheck(id) ==
  IF id \notin 1..Len(txs) THEN "notfound"
  ELSE IF ~IsTransactionEligibleForRollback(id) THEN "not_eligible"
  ELSE IF txs[id].type = "withdraw" THEN "nil"
  ELSE IF ~hasRow[txs[id].to] THEN "panic"
  ELSE IF amount[txs[id].to] < txs[id].amount THEN "insufficient"
  ELSE "nil"

\* RollbackTransaction, called by a, up to its first kernel call.  A call that fails a
\* check returns its error and leaves the state as it is.
RollbackTransactionBy(a, id) ==
  LET row == txs[id]
      f == [IdleFrame EXCEPT !.tx = id]
      err == RollbackCheck(id)
  IN /\ proc[a].pc = "idle"
     /\ IF err = "nil"
        THEN /\ proc' = [proc EXCEPT ![a] =
                  CASE row.type = "deposit" ->
                         Call(f, "rb", "withdraw", row.to, row.amount)
                    [] row.type = "withdraw" ->
                         Call(f, "rb", "deposit", row.from, row.amount)
                    [] row.type = "transfer" ->
                         Call(f, "rbt1", "withdraw", row.to, row.amount)]
             /\ reply' = NoReply
        ELSE /\ reply' = IF err = "notfound"
                         THEN Reply("rollback", id, 0, 0, 0, err)
                         ELSE Reply("rollback", id, row.from, row.to,
                                    row.amount, err)
             /\ UNCHANGED proc
     /\ UNCHANGED <<age, savers, opening, subs, stopper, fb, rq, cache, cw, cb, calls, clock, inits, impl, hasRow, amount, txs, events,
                    audit, initialized, started, cancelled, queue, stats,
                    faults, accepted, rejected, applied, outcome>>

\* The end of a's RollbackTransaction: UpdateStatus(rolled_back) and the audit row
RollbackFinishBy(a) ==
  LET f == proc[a]
      row == txs[f.tx]
  IN /\ f.pc = "finish"
     /\ txs' = [txs EXCEPT ![f.tx].status = "rolled_back"]
     /\ audit' = audit \cup {AuditRow("transaction", f.tx, "rollback",
                                      "rollback")}
     /\ proc' = [proc EXCEPT ![a] = IdleFrame]
     /\ reply' = Reply("rollback", f.tx, row.from, row.to, row.amount, "nil")
     /\ UNCHANGED <<age, savers, opening, subs, stopper, fb, rq, cache, cw, cb, calls, clock, inits, impl, hasRow, amount, events,
                    initialized, started, cancelled, queue, stats, faults,
                    accepted, rejected, applied, outcome>>

\* The rollback endpoint with one caller at a time.
RollbackTransaction(id) == RollbackTransactionBy(Admin, id)

RollbackFinish == RollbackFinishBy(Admin)

\* A storage fault inside the second kernel call of a transfer rollback:
\* DepositAtomically(from) returns an error, RollbackTransaction returns it
\* and the status stays completed.
RollbackFault(a) ==
  /\ proc[a].pc \in {"read", "write"}
  /\ proc[a].phase = "rbt2"
  /\ faults < MaxFaults
  /\ faults' = faults + 1
  /\ proc' = [proc EXCEPT ![a] = AfterKernel(proc[a], "storage")]
  /\ reply' = KernelReply(proc[a], "storage")
  /\ UNCHANGED <<impl, hasRow, amount, txs, events, audit, initialized, started,
              cancelled, queue, stats, accepted, rejected, applied, outcome,
              opening, age, savers, cb, calls, clock, inits, subs, stopper,
              fb, rq, cache, cw>>


\* Time passes: every transaction grows older by one unit.
Tick ==
  /\ \E id \in 1..Len(txs) : age[id] < MaxAge
  /\ age' = [id \in 1..MaxTx |->
               IF id <= Len(txs) /\ age[id] < MaxAge THEN age[id] + 1
               ELSE age[id]]
  /\ reply' = NoReply
  /\ UNCHANGED <<savers, opening, subs, stopper, fb, rq, cache, cw, cb, calls, clock, inits, impl, hasRow, amount, txs, events, audit,
                 initialized, started, cancelled, queue, stats, proc, faults,
                 accepted, rejected, applied, outcome>>

\* ------------------------------------------------------------------ replay

\* The loop of ReplayTransactionEvents / RebuildTransactionState over the
\* events of ("transaction", id) in version order, from version v on: the
\* status UpdateStatus leaves in the row.
RECURSIVE ReplayStatus(_, _, _, _)
ReplayStatus(evs, id, v, st) ==
  LET es == {e \in evs : e.atype = "transaction" /\ e.aid = AggregateID(id)
                         /\ e.version = v}
  IN IF v > GetLastVersion(evs, "transaction", AggregateID(id)) THEN st
     ELSE IF es = {} THEN ReplayStatus(evs, id, v + 1, st)
     ELSE LET e == CHOOSE x \in es : TRUE
          IN ReplayStatus(evs, id, v + 1,
               CASE e.etype = "transaction_completed" -> "completed"
                 [] e.etype = "transaction_failed" -> "failed"
                 [] OTHER -> st)

ReplayTransactionEvents(id) ==
  /\ id \in 1..Len(txs)
  /\ txs' = [txs EXCEPT ![id].status = ReplayStatus(events, id, 1, @)]
  /\ reply' = NoReply
  /\ UNCHANGED <<age, savers, opening, subs, stopper, fb, rq, cache, cw, cb, calls, clock, inits, impl, hasRow, amount, events, audit, initialized, started,
                 cancelled, queue, stats, proc, faults, accepted, rejected,
                 applied, outcome>>

RebuildTransactionState(id) ==
  /\ id \in 1..Len(txs)
  /\ txs' = [txs EXCEPT ![id].status = ReplayStatus(events, id, 1, @)]
  /\ reply' = NoReply
  /\ UNCHANGED <<age, savers, opening, subs, stopper, fb, rq, cache, cw, cb, calls, clock, inits, impl, hasRow, amount, events, audit, initialized, started,
                 cancelled, queue, stats, proc, faults, accepted, rejected,
                 applied, outcome>>

\* ------------------------------------------------------------ specification

\* The event log of an account opened by InitializeBalance and funded to b by
\* one DepositAtomically (rmw variant; the atomic variant writes no events).
\* --------------------------------------- balance initialisation and replay

\* A caller that is not inside InitializeBalance; user and err are those of
\* its last call, found says whether the row existed when that call began.
IdleInit == [pc |-> "idle", user |-> 0, found |-> FALSE, err |-> "none"]

\* BalanceRepository.InitializeBalance of the read-modify-write service: the
\* row of u exists afterwards, with amount 0 when it was inserted.
RepoInitializeBalance(rows, u) == [rows EXCEPT ![u] = TRUE]

\* BalanceRepository.Create under UNIQUE(user_id): the error it returns.
RepoCreate(rows, u) == IF rows[u] THEN "storage" ELSE "nil"

\* InitializeBalance up to its first store call.  rmw: repo.InitializeBalance.
\* atomic: repo.FindByUserID, and the return when the row exists.
InitializeBalanceBegin(c, u) ==
  /\ inits[c].pc = "idle"
  /\ Cardinality({e \in events : e.atype = "balance"
                                  /\ e.aid = AggregateID(u)}) < MaxLogLen
  /\ IF impl = "rmw"
     THEN /\ hasRow' = RepoInitializeBalance(hasRow, u)
          /\ inits' = [inits EXCEPT ![c] =
                         [pc |-> "event", user |-> u, found |-> hasRow[u],
                          err |-> "none"]]
     ELSE /\ hasRow' = hasRow
          /\ inits' = [inits EXCEPT ![c] =
               IF hasRow[u]
               THEN [pc |-> "idle", user |-> u, found |-> TRUE, err |-> "nil"]
               ELSE [pc |-> "create", user |-> u, found |-> FALSE,
                     err |-> "none"]]
  /\ reply' = NoReply
  /\ UNCHANGED <<impl, amount, txs, events, audit, initialized, started,
                 cancelled, queue, stats, proc, faults, accepted, rejected,
                 applied, outcome, opening, subs, stopper, fb, rq, cache, cw, age, savers, cb, calls, clock>>

\* The rest of InitializeBalance.  rmw: saveEvent of a balance with amount 0
\* and the audit row.  atomic: repo.Create, then the audit row.
InitializeBalanceEnd(c) ==
  LET u == inits[c].user
      err == IF impl = "rmw" THEN "nil" ELSE RepoCreate(hasRow, u)
  IN /\ inits[c].pc \in {"event", "create"}
     /\ events' = IF impl = "rmw"
                  THEN AppendEvent(events, "balance", u, "balance_updated", 0)
                  ELSE events
     /\ hasRow' = IF err = "nil" THEN [hasRow EXCEPT ![u] = TRUE] ELSE hasRow
     /\ audit' = IF err = "nil"
                 THEN audit \cup {AuditRow("balance", u, "create", "init")}
                 ELSE audit
     /\ inits' = [inits EXCEPT ![c] =
                    [inits[c] EXCEPT !.pc = "idle", !.err = err]]
     /\ reply' = NoReply
     /\ UNCHANGED <<impl, amount, txs, initialized, started, cancelled,
                    queue, stats, proc, faults, accepted, rejected, applied,
                    outcome, opening, subs, stopper, fb, rq, cache, cw, age, savers, cb, calls, clock>>

\* GetAggregateEvents("balance", u)
BalanceEvents(evs, u) ==
  {e \in evs : e.atype = "balance" /\ e.aid = AggregateID(u)}

\* An event applied as a change of the amount.
ApplyBalanceEventDelta(row, e) ==
  IF e.etype = "balance_updated" THEN row + e.data ELSE row

\* One turn of the replay loop: repo.Update of the Balance the event carries.
ApplyBalanceEvent(row, e) ==
  IF e.etype = "balance_updated" THEN e.data ELSE row

\* The replay loop over the events above version v, in ORDER BY version ASC.
RECURSIVE ReplayFrom(_, _, _)
ReplayFrom(es, row, v) ==
  LET rest == {e \in es : e.version > v}
  IN IF rest = {} THEN row
     ELSE LET e == CHOOSE x \in rest : \A y \in rest : x.version <= y.version
          IN ReplayFrom(es, ApplyBalanceEvent(row, e), e.version)

\* The body ReplayBalanceEvents and RebuildBalanceState share.  repo.Update
\* fails when the account has no row.  The reply carries the amount of the
\* row before the call and, in `from`, the account of the call when the step
\* before was the same call on the same account (0 otherwise).
ReplayBalance(op, u) ==
  LET es == BalanceEvents(events, u)
      fails == es # {} /\ ~hasRow[u]
  IN /\ impl = "rmw"
     /\ amount' = IF fails THEN amount
                  ELSE [amount EXCEPT ![u] = ReplayFrom(es, @, 0)]
     /\ reply' = Reply(op, u,
                       IF reply.op = op /\ reply.id = u THEN u ELSE 0, 0,
                       amount[u], IF fails THEN "storage" ELSE "nil")
     /\ UNCHANGED <<impl, hasRow, txs, events, audit, initialized, started,
                    cancelled, queue, stats, proc, faults, accepted,
                    rejected, applied, outcome, opening, subs, stopper, fb, rq, cache, cw, age, savers, cb,
                    calls, clock, inits>>

\* BalanceService.ReplayBalanceEvents
ReplayBalanceEvents(u) == ReplayBalance("replay_balance", u)

\* BalanceService.RebuildBalanceState
RebuildBalanceState(u) == ReplayBalance("rebuild_balance", u)

InitEvents(i, rows, amts) ==
  IF i = "atomic" THEN {}
  ELSE UNION {
         {[atype |-> "balance", aid |-> AggregateID(u),
           etype |-> "balance_updated", version |-> 1, data |-> 0]}
         \cup (IF amts[u] > 0
               THEN {[atype |-> "balance", aid |-> AggregateID(u),
                      etype |-> "balance_updated", version |-> 2,
                      data |-> amts[u]]}
               ELSE {})
         : u \in {x \in Users : rows[x]}}

InitTables ==
  /\ impl \in {"rmw", "atomic"}
  /\ hasRow \in [Users -> BOOLEAN]
  /\ amount \in [Users -> 0..MaxInitAmount]
  /\ \A u \in Users : ~hasRow[u] => amount[u] = 0
  /\ txs = <<>>
  /\ events = InitEvents(impl, hasRow, amount)
  /\ audit = {}
  /\ initialized = FALSE
  /\ started = FALSE
  /\ cancelled = FALSE
  /\ queue = <<>>
  /\ stats = [submitted |-> 0, completed |-> 0, failed |-> 0, rejected |-> 0]
  /\ proc = [p \in Procs |-> IdleFrame]
  /\ faults = 0
  /\ accepted = {}
  /\ rejected = {}
  /\ applied = {}
  /\ outcome = <<>>
  /\ opening = amount
  /\ reply = NoReply
  /\ age = [id \in 1..MaxTx |-> 0]
  /\ savers = [x \in Savers |-> IdleSaver]
  /\ clock = 1
  /\ calls = [c \in Callers |-> IdleCall]
  /\ inits = [c \in Callers |-> IdleInit]
  /\ subs = [c \in Callers |-> IdleSubmit]
  /\ stopper = "idle"
  /\ fb = IdleFallback
  /\ rq = EmptyRetryQueue
  /\ cache = [u \in Users |-> NoEntry]
  /\ cw = [c \in Callers |-> IdleCached]

Init ==
  /\ InitTables
  /\ cb = New(1, clock)

Next ==
  \/ \E u \in Users, a \in Amounts : DepositFunds(u, a)
  \/ \E u \in Users, a \in Amounts : WithdrawFunds(u, a)
  \/ \E f \in Users : \E t \in Users \ {f}, a \in Amounts :
       TransferFunds(f, t, a)
  \/ GetWorkerPoolStats
  \/ Shutdown
  \/ \E w \in Workers : Dequeue(w)
  \/ \E w \in Workers : WorkerFinish(w)
  \/ \E w \in Workers : WorkerExit(w)
  \/ \E p \in Procs : KFault(p)
  \/ \E p \in Procs : KRead(p)
  \/ \E p \in Procs : KWrite(p)
  \/ \E p \in Procs : KEvent(p)
  \/ \E id \in 1..MaxTx : RollbackCheck(id) = "nil" /\ RollbackTransaction(id)
  \/ RollbackFinish
  \/ \E id \in 1..MaxTx : ReplayTransactionEvents(id)
  \/ \E id \in 1..MaxTx : RebuildTransactionState(id)

Spec == Init /\ [][Next]_vars

\* The service as its callers see it: every account exists, the calls carry
\* any amount from 0 up and any pair of users, a rollback may name any id at
\* any time, and time passes.  The store does not fail and the pool is not
\* shut down.
InitAPI ==
  /\ Init
  /\ \A u \in Users : hasRow[u]

NextAPI ==
  \/ \E u \in Users, a \in 0..MaxAmount : DepositFunds(u, a)
  \/ \E u \in Users, a \in 0..MaxAmount : WithdrawFunds(u, a)
  \/ \E f \in Users, t \in Users, a \in 0..MaxAmount : TransferFunds(f, t, a)
  \/ GetWorkerPoolStats
  \/ \E w \in Workers : Dequeue(w)
  \/ \E w \in Workers : WorkerFinish(w)
  \/ \E p \in Procs : KRead(p)
  \/ \E p \in Procs : KWrite(p)
  \/ \E p \in Procs : KEvent(p)
  \/ \E id \in 1..MaxTx : RollbackTransaction(id)
  \/ RollbackFinish
  \/ Tick

SpecAPI == InitAPI /\ [][NextAPI]_vars

\* The event store on its own: an empty table and NumSavers callers of
\* EventStoreService.SaveEvent.
InitES ==
  /\ Init
  /\ impl = "rmw"
  /\ \A u \in Users : ~hasRow[u]

NextES ==
  \/ \E s \in Savers : \E e \in EventInputs(s) : SaveCheck(s, e)
  \/ \E s \in Savers : SaveInsert(s)

SpecES == InitES /\ [][NextES]_vars

\* The writers on their own: an empty table and NumSavers callers of the
\* services' saveEvent, each appending to the aggregate it is given.
InitW == InitES

NextW ==
  \/ \E s \in Savers : \E atype \in {"balance", "transaction"} :
       \E u \in Users : SaveEventBuild(s, atype, u)
  \/ \E s \in Savers : SaveEventCall(s)
  \/ \E s \in Savers : SaveInsert(s)

SpecW == InitW /\ [][NextW]_vars


\* The circuit breaker on its own: circuitbreaker.New with the default
\* ReadyToTrip, Interval and Timeout and maxRequests from 1 to MaxProbes,
\* NumCallers callers of Execute, and the clock.
InitCB ==
  /\ InitTables
  /\ impl = "rmw"
  /\ \A u \in Users : ~hasRow[u]
  /\ \E m \in 1..MaxProbes : cb = New(m, clock)

NextCB ==
  \/ \E c \in Callers : BeforeRequest(c)
  \/ \E c \in Callers, success \in BOOLEAN : AfterRequest(c, success)
  \/ State
  \/ ClockTick

SpecCB == InitCB /\ [][NextCB]_vars

\* No worker is inside DepositAtomically / WithdrawAtomically and no caller
\* inside InitializeBalance.
NoBalanceCall ==
  /\ \A p \in Procs : proc[p].pc \in {"idle", "exited", "finish"}
  /\ \A c \in Callers : inits[c].pc = "idle"

\* The balance service under the engine: deposits and withdrawals processed
\* by the workers, and (read-modify-write service) the replay and the rebuild
\* of an account from its event log, called while no balance call is in
\* flight.  The store does not fail.
InitBal == Init

NextBal ==
  \/ \E u \in Users, a \in Amounts : DepositFunds(u, a)
  \/ \E u \in Users, a \in Amounts : WithdrawFunds(u, a)
  \/ GetWorkerPoolStats
  \/ \E w \in Workers : Dequeue(w)
  \/ \E w \in Workers : WorkerFinish(w)
  \/ \E p \in Workers : KRead(p)
  \/ \E p \in Workers : KWrite(p)
  \/ \E p \in Workers : KEvent(p)
  \/ \E u \in Users : NoBalanceCall /\ ReplayBalanceEvents(u)
  \/ \E u \in Users : NoBalanceCall /\ RebuildBalanceState(u)

SpecBal == InitBal /\ [][NextBal]_vars

\* The worker pool under concurrent clients: NumCallers callers of
\* DepositFunds, whose Submit is taken step by step, the workers, and one
\* call of Shutdown, whose Stop is taken step by step.  The store does not
\* fail.
InitPool == Init

NextPool ==
  \/ GetWorkerPoolStats
  \/ \E c \in Callers : \E u \in Users, a \in Amounts : SubmitCheck(c, u, a)
  \/ \E c \in Callers : SubmitSend(c)
  \/ StopFlag
  \/ StopCancel
  \/ StopClose
  \/ StopWait
  \/ \E w \in Workers : Dequeue(w)
  \/ \E w \in Workers : WorkerExit(w)
  \/ \E w \in Workers : WorkerFinish(w)
  \/ \E p \in Workers : KRead(p)
  \/ \E p \in Workers : KWrite(p)
  \/ \E p \in Workers : KEvent(p)

SpecPool == InitPool /\ [][NextPool]_vars


\* The circuit breaker with progress: callers keep arriving, every wrapped
\* call returns, and time keeps advancing.
SpecCBLive ==
  /\ InitCB
  /\ [][NextCB]_vars
  /\ WF_vars(\E c \in Callers : BeforeRequest(c))
  /\ WF_vars(\E c \in Callers, success \in BOOLEAN : AfterRequest(c, success))
  /\ WF_vars(ClockTick)


\* The cached balance service on its own: NumCallers callers of its
\* DepositAtomically and WithdrawAtomically, an empty cache, and a store and
\* a cache that do not fail.
InitCache == Init

NextCache ==
  \/ \E c \in Callers : \E op \in {"deposit", "withdraw"} :
       \E u \in Users, a \in Amounts : CachedCall(c, op, u, a)
  \/ \E c \in Callers : CachedInvalidate(c)
  \/ \E c \in Callers : CachedSet(c)

SpecCache == InitCache /\ [][NextCache]_vars


\* One call of FallbackManager.Execute with the retry strategy, for every
\* configuration within the bounds; the primary function returns (with a
\* result or an error) and time advances.
InitFB ==
  /\ Init
  /\ impl = "rmw"
  /\ \A u \in Users : ~hasRow[u]

NextFB ==
  \/ \E m \in -1..MaxRetriesArg, i \in 0..MaxRetryInterval,
        t \in 0..MaxExecuteTimeout, hasFallback \in BOOLEAN,
        parent \in BOOLEAN : FbExecute(m, i, t, hasFallback, parent)
  \/ \E ok \in BOOLEAN : FbPrimaryReturn(ok)
  \/ FbTimer
  \/ \E ok \in BOOLEAN : FbAttemptReturn(ok)
  \/ FbCtxDone
  \/ FbTick

SpecFB ==
  /\ InitFB
  /\ [][NextFB]_vars
  /\ WF_vars(\E ok \in BOOLEAN : FbPrimaryReturn(ok))
  /\ WF_vars(\E ok \in BOOLEAN : FbAttemptReturn(ok))
  /\ WF_vars(FbTimer)
  /\ WF_vars(FbTick)


\* The retry queue on its own: NumItems items added by callers with any
\* MaxRetries within the bounds, NumRetryWorkers workers; every Function
\* returns and every sleep ends.
InitRQ ==
  /\ Init
  /\ impl = "rmw"
  /\ \A u \in Users : ~hasRow[u]

NextRQ ==
  \/ \E i \in ItemIds, m \in 0..MaxRetriesArg : RqAdd(i, m)
  \/ \E w \in RetryWorkers : RqReceive(w)
  \/ \E w \in RetryWorkers, ok \in BOOLEAN : RqFunctionReturn(w, ok)
  \/ \E i \in ItemIds : RqWake(i)

SpecRQ ==
  /\ InitRQ
  /\ [][NextRQ]_vars
  /\ WF_vars(\E w \in RetryWorkers : RqReceive(w))
  /\ \A w \in RetryWorkers :
       WF_vars(\E ok \in BOOLEAN : RqFunctionReturn(w, ok))
  /\ \A i \in ItemIds : WF_vars(RqWake(i))


\* Rollbacks under concurrent callers: one transfer processed by a worker,
\* NumCallers callers of RollbackTransaction once it is eligible, and
\* storage faults in the second step of a transfer rollback.
InitRB == Init

NextRB ==
  \/ \E f \in Users : \E t \in Users \ {f}, a \in Amounts :
       txs = <<>> /\ TransferFunds(f, t, a)
  \/ GetWorkerPoolStats
  \/ \E w \in Workers : Dequeue(w)
  \/ \E w \in Workers : WorkerFinish(w)
  \/ \E p \in Procs : KRead(p)
  \/ \E p \in Procs : KWrite(p)
  \/ \E p \in Procs : KEvent(p)
  \/ \E a \in Admins : \E id \in 1..MaxTx :
       RollbackCheck(id) = "nil" /\ RollbackTransactionBy(a, id)
  \/ \E a \in Admins : RollbackFinishBy(a)
  \/ \E a \in Admins : RollbackFault(a)

SpecRB == InitRB /\ [][NextRB]_vars


\* InitializeBalance called directly (user registration, the balance
\* handler) by NumCallers callers on accounts in any state, with the replay
\* and the rebuild of the read-modify-write service.
InitInit == Init

NextInit ==
  \/ \E c \in Callers, u \in Users : InitializeBalanceBegin(c, u)
  \/ \E c \in Callers : InitializeBalanceEnd(c)
  \/ \E u \in Users : ReplayBalanceEvents(u)
  \/ \E u \in Users : RebuildBalanceState(u)

SpecInit == InitInit /\ [][NextInit]_vars


\* ------------------------------------------------------------------ claims

\* No worker and no rollback is inside a handler, and nothing is queued.
Quiescent ==
  /\ queue = <<>>
  /\ \A p \in Procs : proc[p].pc \in {"idle", "exited"}

\* No RollbackTransaction has written a balance row.
NoRollbackWrites ==
  \A x \in applied : x[2] \in {"single", "debit", "credit", "comp"}

TxIds == 1..Len(txs)

\* Sum of the amounts of the completed transactions among 1..n that pay
\* into u / pay out of u.
RECURSIVE Credits(_, _)
Credits(u, n) ==
  IF n = 0 THEN 0
  ELSE Credits(u, n - 1)
       + (IF txs[n].status = "completed" /\ txs[n].to = u
          THEN txs[n].amount ELSE 0)

RECURSIVE Debits(_, _)
Debits(u, n) ==
  IF n = 0 THEN 0
  ELSE Debits(u, n - 1)
       + (IF txs[n].status = "completed" /\ txs[n].from = u
          THEN txs[n].amount ELSE 0)

Ledger(u) == opening[u] + Credits(u, Len(txs)) - Debits(u, Len(txs))

\* C1: the persisted amount of every user is >= 0 in every reachable state.
C1_AmountNonNegative ==
  \A u \in Users : amount[u] >= 0

\* C2: deposits on one account are linearizable: when every transaction is a
\* deposit and all of them have completed, each account holds its opening
\* amount plus the sum of the deposits made to it (no lost update).
C2_DepositsLinearizable ==
  ( /\ Quiescent
    /\ NoRollbackWrites
    /\ \A t \in TxIds : txs[t].type = "deposit" /\ txs[t].status = "completed" )
  => \A u \in Users : amount[u] = Ledger(u)

\* C3: a step of the atomic WithdrawAtomically whose amount exceeds the stored
\* balance leaves the balances table as it is (the closure's -1 is not stored).
C3_RejectedWithdrawLeavesRow ==
  [][\A p \in Procs :
       ( /\ impl = "atomic"
         /\ proc[p].pc = "write"
         /\ proc[p].op = "withdraw"
         /\ hasRow[proc[p].user]
         /\ amount[proc[p].user] < proc[p].amt
         /\ proc'[p].pc # "write" )
       => amount' = amount]_vars

\* C4: when every transaction is a transfer and all of them have completed,
\* every account changed by exactly the transfers out of it and into it, so
\* the total is conserved.
C4_TransfersConserve ==
  ( /\ Quiescent
    /\ NoRollbackWrites
    /\ \A t \in TxIds : txs[t].type = "transfer" /\ txs[t].status = "completed" )
  => \A u \in Users : amount[u] = Ledger(u)

\* C5: a transfer whose credit failed runs the compensating deposit; when the
\* compensator succeeded the transaction is failed and, no other process
\* having written the two accounts meanwhile, both hold their amounts from
\* before the transfer.
C5_CompensatedTransferRestores ==
  \A t \in TxIds :
    /\ (txs[t].type = "transfer" /\ outcome[t].err = "storage")
         => outcome[t].comp \in {"ok", "failed"}
    /\ outcome[t].comp = "ok"
         => /\ txs[t].status = "failed"
            /\ outcome[t].clean => outcome[t].restored

C5_Witness ==
  \E t \in TxIds :
    /\ txs[t].type = "transfer"
    /\ outcome[t].err = "storage"
    /\ outcome[t].comp = "ok"
    /\ outcome[t].clean
    /\ outcome[t].restored
    /\ txs[t].status = "failed"
    /\ <<t, "debit">> \in applied
    /\ <<t, "comp">> \in applied

\* C6: a transfer whose compensating deposit failed returns a
\* CompensationFailed error and leaves an audit row about the failed
\* compensation.
C6_CompensationFailureSurfaced ==
  \A t \in TxIds :
    outcome[t].comp = "failed"
      => /\ outcome[t].err = "compensation_failed"
         /\ \E a \in audit : /\ a.etype = "transaction"
                             /\ a.eid = t
                             /\ a.action = "compensation_failed"

\* C7: once every accepted deposit and withdrawal has settled, and no
\* rollback has run, each account holds its opening amount plus the completed
\* deposits to it minus the completed withdrawals from it.
C7_LedgerAtQuiescence ==
  ( /\ Quiescent
    /\ NoRollbackWrites
    /\ \A t \in TxIds : /\ txs[t].type \in {"deposit", "withdraw"}
                        /\ t \in accepted => txs[t].status # "pending" )
  => \A u \in Users : amount[u] = Ledger(u)

\* C8: a status changes only from pending to completed or failed, or from
\* completed to rolled_back.
C8_StatusMonotone ==
  [][\A t \in TxIds :
       txs'[t].status # txs[t].status
         => \/ /\ txs[t].status = "pending"
               /\ txs'[t].status \in {"completed", "failed"}
            \/ /\ txs[t].status = "completed"
               /\ txs'[t].status = "rolled_back"]_vars

\* C9: no accepted transaction is left pending with every worker gone (a
\* state from which no step can settle it).
C9_NoStrandedPending ==
  ~ ( /\ \A w \in Workers : proc[w].pc = "exited"
      /\ \E t \in accepted : txs[t].status = "pending" )

\* C10: a transaction Submit refused is failed, its caller got the error, and
\* no balance row is ever written on its behalf.
C10_RejectedNeverApplied ==
  \A t \in rejected :
    /\ t \in TxIds
    /\ t \notin accepted
    /\ txs[t].status = "failed"
    /\ \A x \in applied : x[1] # t

C10_Witness ==
  /\ stats.rejected > 0
  /\ Len(queue) = QueueCap
  /\ \E t \in rejected : txs[t].status = "failed"

\* C11: Submit never blocks and never puts more than QueueCap transactions
\* into the queue: the queue never holds more than QueueCap entries, and
\* while the pool runs and no worker has taken anything (everything accepted
\* is still queued), of QueueCap or more submissions exactly QueueCap were
\* accepted and the others were rejected.
C11_QueueBounded ==
  /\ Len(queue) <= QueueCap
  /\ (started /\ Len(queue) = Cardinality(accepted)
       /\ Cardinality(accepted \cup rejected) >= QueueCap)
     => (Cardinality(accepted) = QueueCap
         /\ stats.rejected = Cardinality(rejected))

\* QueueCap + 1 submissions reached a running pool before any worker took
\* one: the queue is full and one was rejected.
C11_Witness ==
  /\ started
  /\ Len(queue) = QueueCap
  /\ Cardinality(accepted) = QueueCap
  /\ Cardinality(rejected) = 1
  /\ stats.rejected = 1
  /\ \A w \in Workers : proc[w].pc = "idle"

\* Workers that took a transaction and have not finished it.
InFlight == Cardinality({w \in Workers : proc[w].pc \notin {"idle", "exited"}})

\* C12: the pool's counters satisfy
\* submitted = completed + failed + rejected + queue_length + in_flight.
C12_CountersBalance ==
  stats.submitted = stats.completed + stats.failed + stats.rejected
                    + Len(queue) + InFlight

\* C13: when Stop returns (every worker has left its loop, which is what
\* wg.Wait waits for), no worker is inside a transaction and no accepted
\* transaction is left in the queue.
C13_StopDrains ==
  (cancelled /\ \A w \in Workers : proc[w].pc = "exited")
    => (InFlight = 0 /\ queue = <<>>)

\* The last step was a client call (DepositFunds, WithdrawFunds or
\* TransferFunds) and reply is what it returned.
ClientReplied == reply.op \in {"deposit", "withdraw", "transfer"}

\* C14: a DepositFunds, WithdrawFunds or TransferFunds call with amount <= 0,
\* and a TransferFunds call with from = to, returns a validation error and
\* persists nothing: it creates no transaction, and no stored transaction has
\* such an amount or such a pair.
C14_InvalidCallsRejected ==
  /\ (ClientReplied
      /\ (reply.amt <= 0 \/ (reply.op = "transfer" /\ reply.from = reply.to)))
     => (reply.err \in {"invalid_amount", "same_user"} /\ reply.id = 0)
  /\ \A t \in TxIds :
       /\ txs[t].amount > 0
       /\ txs[t].type = "transfer" => txs[t].from # txs[t].to

\* C15: a WithdrawFunds or TransferFunds call (valid amount, distinct users,
\* sender has a row) whose sender holds less than the amount returns the
\* insufficient-funds error at once: no transaction row, no submission, no
\* event, and the balances stay as they are.
C15_InsufficientRejectedSync ==
  [][(/\ reply'.op \in {"withdraw", "transfer"}
      /\ reply'.amt > 0
      /\ reply'.from # reply'.to
      /\ hasRow[reply'.from]
      /\ amount[reply'.from] < reply'.amt)
     => (/\ reply'.err = "insufficient"
         /\ reply'.id = 0
         /\ txs' = txs
         /\ queue' = queue
         /\ stats' = stats
         /\ accepted' = accepted
         /\ rejected' = rejected
         /\ events' = events
         /\ amount' = amount
         /\ hasRow' = hasRow)]_vars

C15_Witness ==
  /\ reply.op \in {"withdraw", "transfer"}
  /\ reply.err = "insufficient"
  /\ reply.id = 0
  /\ reply.amt > 0
  /\ hasRow[reply.from]
  /\ amount[reply.from] < reply.amt
  /\ initialized

\* C16: WithdrawAtomically succeeds exactly when amount <= the current
\* balance, and then the new balance is the current one minus amount: the
\* step that stores a successful withdrawal finds at least amount in the row
\* and leaves exactly amount less, and a call on an existing row that ends
\* without storing rejected a balance below amount.
C16_WithdrawExact ==
  [][\A p \in Procs :
       LET f == proc[p]
           u == f.user
       IN (f.op = "withdraw" /\ f.pc \in {"read", "write"} /\ hasRow[u])
          => /\ (f.pc = "write" /\ proc'[p].pc = "event")
                  => /\ f.amt <= amount[u]
                     /\ amount'[u] = amount[u] - f.amt
             /\ proc'[p].pc \notin {"read", "write", "event"}
                  => amount[u] < f.amt]_vars

\* A transaction younger than 24 h / no older than 24 h.
YoungerThanWindow(a) == a < RollbackWindow

NotOlderThanWindow(a) == a <= RollbackWindow

\* RollbackTransaction acts only on a transaction that exists, is completed
\* and whose age passes Within: a call that starts reversing (the rollback
\* leaves idle) names such a transaction, and a call on any other id returns
\* the lookup or eligibility error in the same step with the balances, the
\* transactions and the audit log as they were.
RollbackOnlyIf(Within(_)) ==
  LET id == reply'.id
      Allowed(t) == /\ t \in 1..Len(txs)
                    /\ txs[t].status = "completed"
                    /\ Within(age[t])
  IN /\ (proc[Admin].pc = "idle" /\ proc'[Admin].pc # "idle")
          => Allowed(proc'[Admin].tx)
     /\ (proc[Admin].pc = "idle" /\ reply'.op = "rollback" /\ ~Allowed(id))
          => /\ reply'.err \in {"notfound", "not_eligible"}
             /\ amount' = amount
             /\ txs' = txs
             /\ audit' = audit
             /\ proc' = proc

C18_RollbackExact ==
  [][LET f == proc[Admin]
         u == f.user
     IN /\ (f.pc = "write" /\ proc'[Admin].pc = "event")
             => amount' = [amount EXCEPT ![u] =
                             IF f.op = "withdraw" THEN @ - f.amt
                             ELSE @ + f.amt]
        /\ (reply'.op = "rollback" /\ reply'.err = "nil")
             => txs'[reply'.id].status = "rolled_back"
        /\ (/\ f.pc = "idle"
            /\ reply'.op = "rollback"
            /\ reply'.err \notin {"notfound", "not_eligible"}
            /\ txs[reply'.id].type \in {"deposit", "transfer"}
            /\ amount[reply'.to] < reply'.amt)
             => reply'.err = "insufficient"
        /\ (reply'.op = "rollback" /\ reply'.err = "insufficient")
             => (amount' = amount /\ txs' = txs /\ audit' = audit)]_vars

\* The versions stored for an aggregate.
Versions(atype, aid) ==
  {e.version : e \in {x \in events : x.atype = atype /\ x.aid = aid}}

\* C19: SaveEvent stores the event only if its version is the last persisted
\* version of its (aggregate_type, aggregate_id) plus one; a call with any
\* other version, the stale version = last included, returns
\* ConcurrentModification and leaves the log as it is.
C19_SaveEventVersionCheck ==
  [][/\ \A s \in Savers :
          LET e == savers'[s].ev
              last == GetLastVersion(events, e.atype, e.aid)
          IN (savers[s].pc = "idle" /\ savers'[s] # savers[s]
              /\ e.version # last + 1)
             => /\ savers'[s].err = "concurrent_modification"
                /\ savers'[s].pc = "idle"
                /\ events' = events
     /\ \A e \in events' \ events :
          e.version = GetLastVersion(events, e.atype, e.aid) + 1]_vars

\* A caller offered the stale version (the last one stored) and was refused
\* with ConcurrentModification.
C19_Witness ==
  \E s \in Savers :
    /\ savers[s].pc = "idle"
    /\ savers[s].err = "concurrent_modification"
    /\ savers[s].last >= 1
    /\ savers[s].ev.version = savers[s].last
    /\ savers[s].ev.version \in Versions(savers[s].ev.atype, savers[s].ev.aid)

\* C20: whatever the interleaving of concurrent SaveEvent calls, the versions
\* stored for every (aggregate_type, aggregate_id) are exactly 1..k, each
\* once: no gap, and no two events share (type, id, version).
C20_VersionsDense ==
  /\ \A e \in events :
       Versions(e.atype, e.aid) = 1..GetLastVersion(events, e.atype, e.aid)
  /\ \A e1 \in events, e2 \in events :
       (e1.atype = e2.atype /\ e1.aid = e2.aid /\ e1.version = e2.version)
         => e1 = e2

\* Two callers raced for the same version: one stored it, the other was
\* stopped by the table's constraint, and the aggregate has versions 1 and 2.
C20_Witness ==
  \E s \in Savers :
    /\ savers[s].err = "unique_violation"
    /\ Versions(savers[s].ev.atype, savers[s].ev.aid) = 1..2
    /\ \E e \in events : /\ e.atype = savers[s].ev.atype
                         /\ e.aid = savers[s].ev.aid
                         /\ e.version = savers[s].ev.version
                         /\ e.data # s

\* ------------------------------------------------- claims: circuit breaker

\* Caller c entered Execute in this step (beforeRequest ran).
Arrives(c) == calls[c].pc = "idle" /\ calls'[c] # calls[c]

\* Caller c's request completed in this step with the given result
\* (afterRequest ran).
Completes(c, err) == calls[c].pc = "running" /\ calls'[c].err = err

\* The rollover of a closed breaker or the end of an open breaker's timeout
\* is due: the next call of currentState starts a new generation.
TimerDue ==
  \/ cb.state = "closed" /\ cb.expiry # 0 /\ cb.expiry < clock
  \/ cb.state = "open" /\ cb.expiry < clock

\* Caller c's completion counts: it belongs to the current generation and no
\* rollover is due.
Counted(c) == calls[c].gen = cb.generation /\ ~TimerDue

\* C22: with the default ready_to_trip a closed breaker never holds more
\* than 5 consecutive failures; it opens only on a failure that finds 5, and
\* a counted failure that finds 5 opens it; a counted success sets the
\* consecutive-failure count back to 0.
C22_TripsOnSixth ==
  [][/\ cb.state = "closed" => cb.counts.ConsecutiveFailures <= 5
     /\ (cb.state = "closed" /\ cb'.state = "open")
          => /\ cb.counts.ConsecutiveFailures = 5
             /\ \E c \in Callers : Completes(c, "failed") /\ Counted(c)
     /\ \A c \in Callers :
          /\ (cb.state = "closed" /\ Completes(c, "failed") /\ Counted(c))
               => IF cb.counts.ConsecutiveFailures = 5
                  THEN cb'.state = "open"
                  ELSE /\ cb'.state = "closed"
                       /\ cb'.counts.ConsecutiveFailures
                            = cb.counts.ConsecutiveFailures + 1
          /\ (cb.state = "closed" /\ Completes(c, "nil") /\ Counted(c))
               => /\ cb'.state = "closed"
                  /\ cb'.counts.ConsecutiveFailures = 0]_vars

\* The breaker of the first generation was opened by a sixth failure.
C22_Witness ==
  /\ cb.state = "open"
  /\ cb.generation = 2
  /\ cb.counts = ZeroCounts
  /\ \E c \in Callers : calls[c].err = "failed" /\ calls[c].gen = 1
                        /\ ~calls[c].dropped

\* C23: while the breaker is open and its timeout has not expired, a call of
\* Execute returns CircuitBreakerOpen, does not run the wrapped operation
\* and leaves the breaker (state, counts, generation) as it is; the first
\* call after the expiry moves the breaker to half_open.
C23_OpenRejects ==
  [][\A c \in Callers :
       (cb.state = "open" /\ Arrives(c))
         => IF cb.expiry < clock
            THEN cb'.state = "half_open"
            ELSE /\ calls'[c].err = "open"
                 /\ calls'[c].pc = "idle"
                 /\ cb' = cb]_vars

\* A call was refused by an open breaker whose timeout has not expired.
C23_Witness ==
  /\ cb.state = "open"
  /\ ~(cb.expiry < clock)
  /\ \E c \in Callers : /\ calls[c].err = "open"
                        /\ calls[c].pc = "idle"
                        /\ calls[c].gen = cb.generation

\* C24: the first call after the open timeout is admitted as a probe, and in
\* half_open a counted success that brings consecutive_successes to
\* max_requests closes the breaker with zeroed counts (with max_requests = 1
\* the first successful probe does).
C24_ProbeCloses ==
  [][\A c \in Callers :
       /\ (cb.state = "open" /\ cb.expiry < clock /\ Arrives(c))
            => /\ calls'[c].pc = "running"
               /\ cb'.state = "half_open"
               /\ cb'.counts.Requests = 1
       /\ (cb.state = "half_open" /\ Completes(c, "nil") /\ Counted(c))
            => IF cb.counts.ConsecutiveSuccesses + 1 >= cb.maxRequests
               THEN /\ cb'.state = "closed"
                    /\ cb'.counts = ZeroCounts
                    /\ cb'.generation = cb.generation + 1
               ELSE cb'.state = "half_open"]_vars

\* A breaker with max_requests = 1 was opened, admitted a probe after the
\* timeout and was closed by its success.
C24_Witness ==
  /\ cb.state = "closed"
  /\ cb.maxRequests = 1
  /\ cb.generation = 4
  /\ cb.counts = ZeroCounts
  /\ \E c \in Callers : /\ calls[c].err = "nil"
                        /\ calls[c].gen = 3
                        /\ ~calls[c].dropped

\* C28: in half_open a counted failure of a probe moves the breaker back to
\* open.
C28_HalfOpenFailureReopens ==
  [][\A c \in Callers :
       (cb.state = "half_open" /\ Completes(c, "failed") /\ Counted(c))
         => cb'.state = "open"]_vars

\* The probes of the current generation that are running.
ProbesInFlight ==
  Cardinality({c \in Callers : calls[c].pc = "running"
                               /\ calls[c].gen = cb.generation})

\* C29: in half_open at most max_requests probes run at the same time; a
\* call that arrives while max_requests probes are running returns
\* TooManyRequests without running the operation, and a call that arrives
\* when fewer are running (a probe has finished) is admitted.
C29_ProbeSlots ==
  [][/\ cb.state = "half_open" => ProbesInFlight <= cb.maxRequests
     /\ \A c \in Callers :
          (cb.state = "half_open" /\ Arrives(c))
            => IF ProbesInFlight >= cb.maxRequests
               THEN calls'[c].err = "too_many" /\ calls'[c].pc = "idle"
               ELSE calls'[c].pc = "running"]_vars

\* C30: afterRequest applies a completion only if the generation captured
\* by its beforeRequest is still the current one: a completion of an older
\* generation, or one that arrives when a rollover is due, leaves the
\* breaker as the rollover alone leaves it (counts not touched by the
\* outcome, no trip, no close), and the generation never decreases.
C30_StaleDropped ==
  [][/\ cb'.generation >= cb.generation
     /\ \A c \in Callers, e \in {"nil", "failed"} :
          (Completes(c, e) /\ ~Counted(c))
            => IF TimerDue
               THEN /\ cb'.generation = cb.generation + 1
                    /\ cb'.counts = ZeroCounts
                    /\ cb'.state = IF cb.state = "open" THEN "half_open"
                                   ELSE cb.state
               ELSE cb' = cb
     /\ \A c \in Callers, e \in {"nil", "failed"} :
          (Completes(c, e) /\ Counted(c))
            => cb'.counts.TotalSuccesses + cb'.counts.TotalFailures
                 = cb.counts.TotalSuccesses + cb.counts.TotalFailures + 1
               \/ cb'.generation = cb.generation + 1]_vars

\* A request admitted by an earlier generation completed after the breaker
\* had moved on, and its outcome was dropped.
C30_Witness ==
  \E c \in Callers :
    /\ calls[c].pc = "idle"
    /\ calls[c].dropped
    /\ calls[c].gen < cb.generation
    /\ calls[c].err = "failed"
    /\ cb.state = "open"

\* ------------------------------------------------ claims: transaction events

\* The events stored for transaction t.
TxEvents(t) ==
  {e \in events : e.atype = "transaction" /\ e.aid = AggregateID(t)}

\* Transaction t was taken from the queue and finished by a worker.
Processed(t) ==
  /\ t \in TxIds
  /\ outcome[t] # NoOutcome
  /\ txs[t].status \in {"completed", "failed"}

\* Transaction t has exactly one transaction_created event and exactly one
\* transaction_completed / transaction_failed event, the created one first.
EventPair(t) ==
  LET created == {e \in TxEvents(t) : e.etype = "transaction_created"}
      final == {e \in TxEvents(t) :
                  e.etype \in {"transaction_completed", "transaction_failed"}}
  IN /\ Cardinality(created) = 1
     /\ Cardinality(final) = 1
     /\ \A c \in created, f \in final : c.version < f.version

\* C21: every transaction a worker has completed or failed (deposit,
\* withdrawal, transfer) has in the event store exactly one
\* transaction_created event and exactly one transaction_completed or
\* transaction_failed event, the created event at the lower version.
C21_EventPair == \A t \in TxIds : Processed(t) => EventPair(t)

\* C21 restricted to deposits.
C21_DepositEventPair ==
  \A t \in TxIds : (Processed(t) /\ txs[t].type = "deposit") => EventPair(t)

\* ---------------------------------------------- claims: balance event log

\* The balance the event log of account u gives ("none" for an empty log).
Derived(evs, u) ==
  IF BalanceEvents(evs, u) = {} THEN "none"
  ELSE ToString(ReplayFrom(BalanceEvents(evs, u), 0, 0))

\* Caller c's call of InitializeBalance is a repeated one: the row existed
\* when it began, or another caller's call on the same account has returned
\* without error in the meantime.
Repeated(c) ==
  \/ inits[c].found
  \/ \E d \in Callers \ {c} : /\ inits[d].pc = "idle"
                              /\ inits[d].user = inits[c].user
                              /\ inits[d].err = "nil"

\* Caller c's call of InitializeBalance returns in this step.
Returns(c) == inits'[c] # inits[c] /\ inits'[c].pc = "idle"

\* C25: a repeated InitializeBalance(u), also on an account whose balance is
\* not zero and also when it races with the first call, returns without
\* error and leaves the balance row and the balance the event log gives as
\* they were.
C25_InitializeIdempotent ==
  [][\A c \in Callers :
       LET u == inits'[c].user
       IN /\ (Returns(c) /\ inits'[c].found) => inits'[c].err = "nil"
          /\ (Returns(c) /\ inits[c].pc # "idle" /\ Repeated(c))
               => /\ inits'[c].err = "nil"
                  /\ hasRow' = hasRow
                  /\ amount' = amount
                  /\ Derived(events', u) = Derived(events, u)]_vars

\* C25 for the service built on AtomicUpdate alone.
C25_AtomicInitializeIdempotent ==
  [][impl = "atomic" =>
       \A c \in Callers :
         (Returns(c) /\ inits[c].pc # "idle" /\ Repeated(c))
           => inits'[c].err = "nil"]_vars

\* C26: a RebuildBalanceState(u) that directly follows a
\* RebuildBalanceState(u) (no write to the account in between) leaves every
\* balance amount as the first one left it.
C26_RebuildIdempotent ==
  [][(reply'.op = "rebuild_balance" /\ reply'.from = reply'.id)
       => amount' = amount]_vars

\* An account whose row differed from its log was rebuilt twice in a row:
\* the second call found the amount of the log's last event and kept it.
C26_Witness ==
  /\ reply.op = "rebuild_balance"
  /\ reply.from = reply.id
  /\ reply.err = "nil"
  /\ Cardinality(BalanceEvents(events, reply.id)) >= 2
  /\ amount[reply.id] = reply.amt
  /\ Derived(events, reply.id) = ToString(amount[reply.id])
  /\ \E t \in TxIds : /\ txs[t].status = "completed"
                      /\ reply.id \in {txs[t].from, txs[t].to}

\* C27: when no balance call is in flight, replaying or rebuilding an
\* account from its full balance event log leaves the amount of its row as
\* it was.
C27_ReplayMatchesRow ==
  [][(reply'.op \in {"replay_balance", "rebuild_balance"} /\ NoBalanceCall)
       => amount' = amount]_vars


\* C37: whenever the breaker is half-open it later leaves half-open (to
\* closed or to open).
C37_HalfOpenLeft ==
  (cb.state = "half_open" /\ cb.generation <= MaxGeneration)
    ~> (cb.state # "half_open")


\* ----------------------------------------------- claims: appending events

\* C31: a writer whose append meets a version conflict caused by a single
\* append of another writer (the aggregate's last version is exactly the
\* version the writer built) does not return ConcurrentModification: it
\* re-reads the last version and retries.
C31_ConflictRetried ==
  [][\A s \in Savers :
       LET f == savers[s]
       IN (/\ f.pc = "call"
           /\ savers'[s].pc = "idle"
           /\ GetLastVersion(events, f.ev.atype, f.ev.aid) = f.ev.version)
            => savers'[s].err # "concurrent_modification"]_vars

\* C35: an insert of an event whose own aggregate (type and id) has no
\* event of that version stores the event, whatever the other aggregate
\* type holds under the same id string.
C35_AggregatesIndependent ==
  [][\A s \in Savers :
       LET e == savers[s].ev
       IN (/\ savers[s].pc = "insert"
           /\ savers'[s].pc = "idle"
           /\ ~\E x \in events : /\ x.atype = e.atype
                                  /\ x.aid = e.aid
                                  /\ x.version = e.version)
            => e \in events']_vars


\* ------------------------------------------------ claims: the worker pool

\* C38: no call of Submit sends on the closed queue: whatever the
\* interleaving with Stop, a Submit returns true or false and never panics.
C38_NoSendOnClosed == \A c \in Callers : subs[c].ret # "panic"


\* C39: a worker is handed a transaction (it leaves the receive with it)
\* only if Submit accepted it and never rejected it, no processor has
\* returned for it, no other worker holds it and no balance row was written
\* for it yet; and the queue never holds a transaction twice.
C39_HandedOnce ==
  [][/\ \A w \in Workers :
          LET t == proc'[w].tx
          IN (proc[w].pc = "idle" /\ t # 0)
               => /\ t \in accepted
                  /\ t \notin rejected
                  /\ outcome[t] = NoOutcome
                  /\ txs[t].status = "pending"
                  /\ \A v \in Workers \ {w} : proc[v].tx # t
                  /\ \A ph \in {"single", "debit", "credit", "comp"} :
                       <<t, ph>> \notin applied
     /\ \A i, j \in 1..Len(queue') : queue'[i] = queue'[j] => i = j
     /\ \A t \in rejected' : /\ outcome'[t] = NoOutcome
                             /\ \A w \in Workers : proc'[w].tx # t]_vars

\* One transaction was accepted and a worker's processor has returned for
\* it; another was rejected by Submit and no processor ever saw it.
C39_Witness ==
  /\ \E t \in accepted : outcome[t] # NoOutcome /\ <<t, "single">> \in applied
  /\ \E t \in rejected : outcome[t] = NoOutcome /\ txs[t].status = "failed"


\* ------------------------------------------------------ claims: rollback

\* C36: a kernel write of RollbackTransaction for a step of the reversal
\* that was already written for the same transaction does not change any
\* balance again (writes that overdraw an account are left aside: they are
\* a failure of the withdrawal, not of the rollback).
C36_ReversedOnce ==
  [][\A a \in Admins :
       LET f == proc[a]
       IN (/\ f.pc = "write"
           /\ f.phase \in {"rb", "rbt1", "rbt2"}
           /\ <<f.tx, f.phase>> \in applied
           /\ proc'[a] # f
           /\ \A u \in Users : amount'[u] >= 0)
            => amount' = amount]_vars


\* --------------------------------------------------- claims: the cache

\* C32: when no call of the cached service is in flight on an account whose
\* current-balance key is set, the key holds the stored balance.
C32_CacheMatchesStore ==
  \A u \in Users :
    (/\ cache[u].present
     /\ \A c \in Callers : cw[c].pc # "idle" => cw[c].user # u)
      => cache[u].value = amount[u]


\* ------------------------------------------- claims: fallback and retry

\* The retry limit and the first wait the configuration of f asks for.
RetryLimit(f) == IF f.maxRetries <= 0 THEN 3 ELSE f.maxRetries

FirstWait(f) == IF f.retryInterval <= 0 THEN 1 ELSE f.retryInterval

\* The primary function is invoked in this step (again, inside the loop).
Reinvoked == fb'.invoked > fb.invoked

\* Execute returns in this step.
FbReturns == fb.pc # "returned" /\ fb'.pc = "returned"

InvocationLimit(it) == IF it.maxRetries < 1 THEN 1 ELSE it.maxRetries

\* The item has left the queue for good.
Left(it) == it.st \in {"done", "failed", "dropped"}

====
